---- MODULE Spec2Model ----
(***************************************************************************)
(* Model of the commit-message generation pipeline: the file-based         *)
(* response cache (utils/cache.py), the concurrent collection phase, the   *)
(* context aggregation, the cached-or-live provider call and the           *)
(* formatter delegation (core/pipeline.py), the component Registry         *)
(* (core/registry.py) and the construction of the providers (core/llm).    *)
(*                                                                         *)
(* Python str values are sequences of code points, so that sorting and     *)
(* joining are computed as Python computes them.  Optional[str] is a       *)
(* record [some, v].  Values of a collector mapping are tagged with their  *)
(* Python type, [t, v], because truthiness depends on the type.            *)
(***************************************************************************)
EXTENDS Integers, Sequences, FiniteSets, TLC

VARIABLES
    cache,      \* the Cache object of the generator: [present, ttl_sec]
    store,      \* the cache directory: file name (digest) -> file content
    now,        \* time.time()
    hist,       \* the last calls made through an API (cache, registry, providers)
    config,     \* the generator's Config (collectors)
    pc,         \* position of the generate coroutine
    run,        \* the generate call in progress or just finished
    prev,       \* summary of the generate call completed before this one
    components, \* Registry._components of a registry: name -> class
    environ     \* os.environ of the process: variable -> Optional[str]

vars == <<cache, store, now, hist, config, pc, run, prev, components, environ>>

(***************************************************************************)
(* Bounds                                                                  *)
(***************************************************************************)
MaxTime == 2

(***************************************************************************)
(* Strings                                                                 *)
(***************************************************************************)
None == [some |-> FALSE, v |-> <<>>]
Some(s) == [some |-> TRUE, v |-> s]

\* "+a", "+b": patch texts
DiffA == <<43, 97>>
DiffB == <<43, 98>>
\* "\n---\n"
DiffSeparator == <<10, 45, 45, 45, 10>>
\* "" and "f": raw model responses
EmptyStr == <<>>
MsgF == <<102>>

Min(a, b) == IF a < b THEN a ELSE b

\* Python str comparison: lexicographic by code point
RECURSIVE StrLess(_, _)
StrLess(a, b) ==
    IF a = <<>> THEN b /= <<>>
    ELSE IF b = <<>> THEN FALSE
    ELSE IF Head(a) /= Head(b) THEN Head(a) < Head(b)
    ELSE StrLess(Tail(a), Tail(b))

\* insertion of x into an ascending list, after its equals (stable)
RECURSIVE InsertSorted(_, _)
InsertSorted(x, l) ==
    IF l = <<>> THEN <<x>>
    ELSE IF StrLess(x, Head(l)) THEN <<x>> \o l
    ELSE <<Head(l)>> \o InsertSorted(x, Tail(l))

\* sorted(iterable of str)
RECURSIVE sorted(_)
sorted(l) ==
    IF l = <<>> THEN <<>>
    ELSE InsertSorted(l[Len(l)], sorted(SubSeq(l, 1, Len(l) - 1)))

\* sep.join(parts)
RECURSIVE join(_, _)
join(sep, parts) ==
    IF parts = <<>> THEN <<>>
    ELSE IF Len(parts) = 1 THEN parts[1]
    ELSE parts[1] \o sep \o join(sep, Tail(parts))

\* str.encode("utf-8"), for code points below 0x800
RECURSIVE Utf8(_)
Utf8(s) ==
    IF s = <<>> THEN <<>>
    ELSE (IF Head(s) < 128 THEN <<Head(s)>>
          ELSE <<192 + (Head(s) \div 64), 128 + (Head(s) % 64)>>) \o Utf8(Tail(s))

(***************************************************************************)
(* utils/cache.py                                                          *)
(***************************************************************************)
\* Cache.__init__: a directory that cannot be created disables the cache
Cache_init(ttl_sec, mkdir_ok) ==
    [present |-> TRUE,
     ttl_sec |-> IF ttl_sec > 0 /\ ~mkdir_ok THEN 0 ELSE ttl_sec]

is_enabled(c) == c.ttl_sec > 0

\* hashlib.sha256(content.encode("utf-8")).hexdigest(): the digest is
\* modelled as collision-free on the encoded bytes
get_key(content) == [sha256 |-> Utf8(content)]

\* json.dump / json.load of the record file
JsonDump(data) == [kind |-> "object", members |-> data]
JsonLoad(text) ==
    IF text.kind = "object" THEN [ok |-> TRUE, data |-> text.members]
    ELSE [ok |-> FALSE, data |-> <<>>]

\* dict.get(key, default)
DictGet(d, k, default) == IF k \in DOMAIN d THEN d[k] ELSE default

\* cache_file.unlink()
Unlink(st, key) == [k \in DOMAIN st \ {key} |-> st[k]]

\* a write that leaves an existing file as it is
WriteFile_keep(st, key, text) ==
    [k \in DOMAIN st \cup {key} |-> IF k \in DOMAIN st THEN st[k] ELSE text]

\* open(cache_file, "w") and the write: the file holds the new text only
WriteFile(st, key, text) == [k \in DOMAIN st \cup {key} |-> IF k = key THEN text ELSE st[k]]

\* a record aged exactly ttl_sec counted as expired
Expired_inclusive(age, ttl_sec) == age >= ttl_sec

\* the comparison of Cache.get that decides expiry
Expired(age, ttl_sec) == age > ttl_sec

\* Cache.get: the value returned and the directory afterwards
Cache_get(c, st, t, content) ==
    IF ~is_enabled(c) THEN [value |-> None, store |-> st]
    ELSE LET key == get_key(content) IN
         IF key \notin DOMAIN st THEN [value |-> None, store |-> st]
         ELSE LET loaded == JsonLoad(st[key]) IN
              IF ~loaded.ok THEN [value |-> None, store |-> st]
              ELSE LET timestamp == DictGet(loaded.data, "timestamp", 0) IN
                   IF Expired(t - timestamp, c.ttl_sec)
                   THEN [value |-> None, store |-> Unlink(st, key)]
                   ELSE [value |-> DictGet(loaded.data, "value", None), store |-> st]

\* Cache.set: the directory afterwards
Cache_set(c, st, t, content, value) ==
    IF ~is_enabled(c) THEN st
    ELSE WriteFile(st, get_key(content),
                   JsonDump([timestamp |-> t, value |-> Some(value)]))

(***************************************************************************)
(* Collector values and core/contracts/models.py                           *)
(***************************************************************************)
VStr(s) == [t |-> "str", v |-> s]
VList(l) == [t |-> "list", v |-> l]
VDict(d) == [t |-> "dict", v |-> d]
VInt(n) == [t |-> "int", v |-> n]

\* the empty mapping {}
EmptyMap == [k \in {} |-> None]

\* bool(value), as tested by "if value:"
Truthy(val) ==
    CASE val.t = "int" -> val.v /= 0
      [] val.t = "dict" -> DOMAIN val.v /= {}
      [] OTHER -> Len(val.v) > 0

\* FileChange(path, diff)
FileChange(path, diff) == [path |-> path, diff |-> diff]
\* "a", "b": paths
FileA == FileChange(<<97>>, DiffA)
FileB == FileChange(<<98>>, DiffB)

\* texts found in the environment: README content, a commit message, an issue
ReadmeText == <<82>>
\* "main"
BranchName == <<109, 97, 105, 110>>
PluginReadme == <<68>>
CommitText == <<99>>
IssueRecord == [title |-> <<116>>]

\* outcome of one collect(): a mapping, or the exception it raised
Returned(data) == [ok |-> TRUE, data |-> data, exc |-> "none"]
Raised(exc) == [ok |-> FALSE, data |-> EmptyMap, exc |-> exc]

(***************************************************************************)
(* core/collectors                                                         *)
(***************************************************************************)
\* what "git diff --cached" can do: [launch, returncode, stdout]
GitDiffRuns ==
    { [launch |-> "ok", returncode |-> 0, stdout |-> EmptyStr],
      [launch |-> "ok", returncode |-> 1, stdout |-> DiffA],
      [launch |-> "ok", returncode |-> 128, stdout |-> EmptyStr],
      [launch |-> "FileNotFoundError", returncode |-> 0, stdout |-> EmptyStr],
      [launch |-> "UnicodeDecodeError", returncode |-> 0, stdout |-> EmptyStr] }

\* a collect that takes every exit code other than 0 for a failure
DiffCollector_collect_strict(p) ==
    IF p.launch = "FileNotFoundError" THEN Raised("CollectorError")
    ELSE IF p.launch /= "ok" THEN Raised(p.launch)
    ELSE IF p.returncode /= 0 THEN Raised("CollectorError")
    ELSE Returned([k \in {"diff"} |-> VStr(p.stdout)])

DiffCollector_collect(p) ==
    IF p.launch = "FileNotFoundError" THEN Raised("CollectorError")
    ELSE IF p.launch /= "ok" THEN Raised(p.launch)
    ELSE IF p.returncode /= 0 /\ p.returncode /= 1 THEN Raised("CollectorError")
    ELSE Returned([k \in {"diff"} |-> VStr(p.stdout)])

\* what "git log" can do: [launch, returncode, commits, no_commits]
GitLogRuns ==
    { [launch |-> "ok", returncode |-> 0, commits |-> <<CommitText>>, no_commits |-> FALSE],
      [launch |-> "ok", returncode |-> 128, commits |-> <<>>, no_commits |-> TRUE],
      [launch |-> "ok", returncode |-> 128, commits |-> <<>>, no_commits |-> FALSE] }

HistoryCollector_collect(p) ==
    IF p.launch = "FileNotFoundError" THEN Raised("CollectorError")
    ELSE IF p.launch /= "ok" THEN Raised(p.launch)
    ELSE IF p.returncode /= 0
         THEN (IF p.no_commits THEN Returned([k \in {"history"} |-> VList(<<>>)])
               ELSE Raised("CollectorError"))
    ELSE Returned([k \in {"history"} |-> VList(p.commits)])

\* README.md / README.rst content that can be read ("" when there is none)
ReadmeFiles == { EmptyStr, ReadmeText }
ReadmeCollector_collect(content) == Returned([k \in {"readme"} |-> VStr(content)])

\* the issue lookup: [repo, number, http], http is "ok", 404, another status
\* or a transport failure
IssueLookups ==
    { [repo |-> TRUE, number |-> TRUE, http |-> "ok"],
      [repo |-> TRUE, number |-> FALSE, http |-> "ok"],
      [repo |-> TRUE, number |-> TRUE, http |-> "404"],
      [repo |-> TRUE, number |-> TRUE, http |-> "500"] }

\* a collect for which a 404 of the remote is an error like the others
IssueCollector_collect_fatal404(p) ==
    IF ~p.repo THEN Returned(EmptyMap)
    ELSE IF ~p.number THEN Returned(EmptyMap)
    ELSE IF p.http = "ok" THEN Returned([k \in {"issue"} |-> VDict(IssueRecord)])
    ELSE Raised("CollectorError")

IssueCollector_collect(p) ==
    IF ~p.repo THEN Returned(EmptyMap)
    ELSE IF ~p.number THEN Returned(EmptyMap)
    ELSE IF p.http = "ok" THEN Returned([k \in {"issue"} |-> VDict(IssueRecord)])
    ELSE IF p.http = "404" THEN Returned(EmptyMap)
    ELSE Raised("CollectorError")

MCPCollector_collect == Returned([k \in {"mcp_data"} |-> VDict(EmptyMap)])

DummyCollector_collect(value) ==
    Returned([k \in {"dummy_data", "value"} |->
                 IF k = "value" THEN VInt(value) ELSE VStr(<<104, 105>>)])

\* a producer registered by a plugin or a test (tests/test_pipeline.py): it
\* returns Context keys directly, or raises
PluginRuns ==
    { [raises |-> "none", files |-> <<>>, readme |-> PluginReadme],
      [raises |-> "none", files |-> <<FileA>>, readme |-> EmptyStr],
      [raises |-> "none", files |-> <<FileA, FileB>>, readme |-> PluginReadme],
      [raises |-> "none", files |-> <<FileB, FileA>>, readme |-> PluginReadme],
      [raises |-> "ValueError", files |-> <<>>, readme |-> EmptyStr] }

PluginCollector_collect(p) ==
    IF p.raises /= "none" THEN Raised(p.raises)
    ELSE Returned([k \in {"files", "readme"} |->
                      IF k = "files" THEN VList(p.files) ELSE VStr(p.readme)])

\* a producer registered by a plugin that returns the name of the branch
\* as "meta"
BranchCollector_collect(branch) == Returned([k \in {"meta"} |-> VStr(branch)])

\* names in collector_registry: the collector modules, and producers
\* registered by a plugin or a test
collector_registry == {"diff", "history", "readme", "issue", "mcp", "dummy", "plugin", "branch"}

\* every outcome collect() of a registered kind can have
CollectOutcomes(kind) ==
    CASE kind = "diff" -> { DiffCollector_collect(p) : p \in GitDiffRuns }
      [] kind = "history" -> { HistoryCollector_collect(p) : p \in GitLogRuns }
      [] kind = "readme" -> { ReadmeCollector_collect(c) : c \in ReadmeFiles }
      [] kind = "issue" -> { IssueCollector_collect(p) : p \in IssueLookups }
      [] kind = "mcp" -> { MCPCollector_collect }
      [] kind = "dummy" -> { DummyCollector_collect(42) }
      [] kind = "plugin" -> { PluginCollector_collect(p) : p \in PluginRuns }
      [] kind = "branch" -> { BranchCollector_collect(BranchName) }

\* whether the constructor of a kind accepts the configured options
\* ("rejected": options it raises on, such as n = 0 for history)
Constructs(kind, options) == kind = "mcp" \/ options = "default"

\* the outcomes of the collectors of a list of kinds, one per collector
RECURSIVE OutcomeSeqs(_)
OutcomeSeqs(kinds) ==
    IF kinds = <<>> THEN { <<>> }
    ELSE { <<o>> \o rest : o \in CollectOutcomes(Head(kinds)), rest \in OutcomeSeqs(Tail(kinds)) }

(***************************************************************************)
(* core/pipeline.py: collection, aggregation, prompt                       *)
(***************************************************************************)
\* a lookup failure that leaves _collect_context as the registry raised it
LookupFailure_unwrapped(kind) == "KeyError"

\* "except KeyError: raise CollectorError(...)"
LookupFailure(kind) == "CollectorError"

NoError == [type |-> "none", by |-> 0]
Error(type, by) == [type |-> type, by |-> by]

\* index of the first configured collector that cannot be created, 0 if none
RECURSIVE FirstNotCreated(_, _)
FirstNotCreated(collectors, i) ==
    IF i > Len(collectors) THEN 0
    ELSE IF collectors[i].type \notin collector_registry
            \/ ~Constructs(collectors[i].type, collectors[i].options) THEN i
    ELSE FirstNotCreated(collectors, i + 1)

\* a later value that replaces the earlier one even when it is empty
KeepOrReplace_always(acc, data, k) ==
    IF k \in DOMAIN data THEN data[k] ELSE acc[k]

\* the value kept for a key when a later mapping is folded in
KeepOrReplace(acc, data, k) ==
    IF k \in DOMAIN data /\ Truthy(data[k]) THEN data[k] ELSE acc[k]

\* one iteration of "for data in results": fold data into combined_data
MergeOne(acc, data) ==
    [k \in DOMAIN acc \cup {d \in DOMAIN data : Truthy(data[d])} |-> KeepOrReplace(acc, data, k)]

\* the merge loop over the gathered results, in task order
RECURSIVE MergeFrom(_, _)
MergeFrom(acc, results) ==
    IF results = <<>> THEN acc
    ELSE MergeFrom(MergeOne(acc, Head(results).data), Tail(results))

Merge(results) == MergeFrom(EmptyMap, results)

\* Context(): every field at its default
DefaultContext ==
    [files |-> <<>>, readme |-> None, recent_commits |-> <<>>,
     issues |-> <<>>, meta |-> EmptyMap]

ContextFields == {"files", "readme", "recent_commits", "issues", "meta"}

FieldType(k) ==
    CASE k = "readme" -> "str"
      [] k = "meta" -> "dict"
      [] OTHER -> "list"

\* the keys of the merged data that Context(**context_data) reads; pydantic
\* ignores the others
AcceptedKeys(data) == DOMAIN data \cap ContextFields

\* Context(**context_data)
aggregate_context(data) ==
    IF \E k \in AcceptedKeys(data) : data[k].t /= FieldType(k)
    THEN [ok |-> FALSE, context |-> DefaultContext, exc |-> "ValidationError"]
    ELSE LET has(k) == k \in AcceptedKeys(data) IN
         [ok |-> TRUE, exc |-> "none",
          context |->
            [files |-> IF has("files") THEN data["files"].v ELSE <<>>,
             readme |-> IF has("readme") THEN Some(data["readme"].v) ELSE None,
             recent_commits |-> IF has("recent_commits") THEN data["recent_commits"].v ELSE <<>>,
             issues |-> IF has("issues") THEN data["issues"].v ELSE <<>>,
             meta |-> IF has("meta") THEN data["meta"].v ELSE EmptyMap]]

\* the longest README excerpt put in the prompt
ReadmeExcerptLen == 500

\* the parts of the summary with the commits put first
SummaryParts_commits_first(readme_part, commits_part, issues_part) ==
    commits_part \o readme_part \o issues_part

\* context_summary_parts after the three "append" of _create_prompt
SummaryParts(readme_part, commits_part, issues_part) ==
    readme_part \o commits_part \o issues_part

\* _create_prompt: the sections of the prompt, in order
create_prompt(ctx, language) ==
    LET readme_part ==
            IF ctx.readme.some /\ ctx.readme.v /= <<>>
            THEN << [section |-> "README Summary",
                     body |-> <<SubSeq(ctx.readme.v, 1, Min(Len(ctx.readme.v), ReadmeExcerptLen))>>] >>
            ELSE <<>>
        commits_part ==
            IF ctx.recent_commits /= <<>>
            THEN << [section |-> "Recent Commits", body |-> ctx.recent_commits] >>
            ELSE <<>>
        issues_part ==
            IF ctx.issues /= <<>>
            THEN << [section |-> "Related Issues",
                     body |-> [i \in 1..Len(ctx.issues) |->
                                  DictGet(ctx.issues[i], "title", <<78, 47, 65>>)]] >>
            ELSE <<>>
    IN  [language |-> language,
         context_summary |-> SummaryParts(readme_part, commits_part, issues_part),
         diffs |-> ctx.files]

(***************************************************************************)
(* core/pipeline.py: provider call, cache, formatter                       *)
(***************************************************************************)
provider_registry == {"openai", "claude", "deepseek", "local", "dummy"}

\* what the configured backend can do in one call: whether its constructor
\* succeeds, whether generate returns or raises, and the text it returns
\* (KeyError: data["choices"] of a response without that member)
Backends ==
    { [init |-> TRUE, gen |-> "ok", text |-> EmptyStr],
      [init |-> TRUE, gen |-> "ok", text |-> MsgF],
      [init |-> TRUE, gen |-> "ProviderError", text |-> EmptyStr],
      [init |-> TRUE, gen |-> "KeyError", text |-> EmptyStr],
      [init |-> FALSE, gen |-> "ok", text |-> EmptyStr] }

NoValue == [t |-> "none", v |-> <<>>]
StrValue(s) == [t |-> "str", v |-> s]
\* the async generator a streaming call returns, yielding the text
StreamValue(s) == [t |-> "stream", v |-> s]

\* a call of the backend that is made again after it raised
GenerateCalls_retrying(outcome) ==
    IF outcome = "ok" THEN <<"provider.generate">>
    ELSE <<"provider.generate", "provider.generate">>

\* the calls of the backend's generate that line 129 makes, whatever the
\* outcome of the call
GenerateCalls(outcome) == <<"provider.generate">>

\* _call_provider: value returned or exception raised, the calls made, and
\* the provider id the message of its own ProviderError names
call_provider(cfg, ctx, stream, backend) ==
    IF cfg.provider \notin provider_registry
    THEN [value |-> NoValue, exc |-> "ProviderError", prompts |-> <<>>,
          events |-> <<"provider_registry.get">>, names |-> cfg.provider]
    ELSE IF ~backend.init
    THEN [value |-> NoValue, exc |-> "ProviderError", prompts |-> <<>>,
          events |-> <<"provider_registry.get", "provider.init">>, names |-> cfg.provider]
    ELSE LET prompt == create_prompt(ctx, cfg.language)
             events == <<"provider_registry.get", "provider.init", "create_prompt">>
                       \o GenerateCalls(backend.gen)
         IN  IF backend.gen /= "ok"
             THEN [value |-> NoValue, exc |-> backend.gen, prompts |-> <<prompt>>,
                   events |-> events, names |-> "none"]
             ELSE [value |-> IF stream THEN StreamValue(backend.text) ELSE StrValue(backend.text),
                   exc |-> "none", prompts |-> <<prompt>>, events |-> events, names |-> "none"]

\* the diffs of the files, as listed for the cache key
RECURSIVE DiffsOf(_)
DiffsOf(files) ==
    IF files = <<>> THEN <<>> ELSE <<Head(files).diff>> \o DiffsOf(Tail(files))

\* the diffs joined in the order of the files
KeyOrder_as_listed(diffs) == diffs

\* the order in which the diffs are joined
KeyOrder(diffs) == sorted(diffs)

\* "\n---\n".join(sorted(f.diff for f in context.files))
diff_content(files) == join(DiffSeparator, KeyOrder(DiffsOf(files)))

\* "if cached_message:" - the test that decides a cache hit
IsHit(cached_message) == cached_message.some /\ cached_message.v /= <<>>

\* a test of "stream or not self.cache or ..." that forgets the stream flag
BypassCache_ignoring_stream(c, stream) == ~c.present \/ ~is_enabled(c)

\* whether the run goes to the provider without consulting the cache
BypassCache(c, stream) == stream \/ ~c.present \/ ~is_enabled(c)

\* a test of "if not context.files" that never fires
NoDiffs_never(ctx) == FALSE

\* "if not context.files"
NoDiffs(ctx) == ctx.files = <<>>

NotFound == [found |-> FALSE, timestamp |-> 0, value |-> None]

\* the record file of a content, as found in a directory
RecordOf(st, content) ==
    IF get_key(content) \in DOMAIN st /\ JsonLoad(st[get_key(content)]).ok
    THEN [found |-> TRUE,
          timestamp |-> DictGet(JsonLoad(st[get_key(content)]).data, "timestamp", 0),
          value |-> DictGet(JsonLoad(st[get_key(content)]).data, "value", None)]
    ELSE NotFound

\* a test that lets the outcome of every backend call be stored
Storable_always(r) == TRUE

\* the backend call returned, and "if isinstance(raw_message, str)"
Storable(r) == r.exc = "none" /\ r.value.t = "str"

\* _generate_raw_message: value or exception, the directory afterwards, the
\* calls made, the content the cache was asked for and the record found
generate_raw_message(cfg, c, st, t, ctx, stream, backend) ==
    IF BypassCache(c, stream)
    THEN LET r == call_provider(cfg, ctx, stream, backend) IN
         [value |-> r.value, exc |-> r.exc, store |-> st, prompts |-> r.prompts,
          events |-> r.events, content |-> None, before |-> NotFound]
    ELSE IF NoDiffs(ctx)
    THEN LET r == call_provider(cfg, ctx, FALSE, backend) IN
         [value |-> r.value, exc |-> r.exc, store |-> st, prompts |-> r.prompts,
          events |-> r.events, content |-> None, before |-> NotFound]
    ELSE LET content == diff_content(ctx.files)
             got == Cache_get(c, st, t, content)
             before == RecordOf(st, content)
             unlinked == IF DOMAIN got.store /= DOMAIN st THEN <<"cache.unlink">> ELSE <<>>
         IN  IF IsHit(got.value)
             THEN [value |-> StrValue(got.value.v), exc |-> "none", store |-> got.store,
                   prompts |-> <<>>, events |-> <<"cache.get">>,
                   content |-> Some(content), before |-> before]
             ELSE LET r == call_provider(cfg, ctx, FALSE, backend) IN
                  IF Storable(r)
                  THEN [value |-> r.value, exc |-> r.exc,
                        store |-> Cache_set(c, got.store, t, content, r.value.v),
                        prompts |-> r.prompts,
                        events |-> <<"cache.get">> \o unlinked \o r.events \o <<"cache.set">>,
                        content |-> Some(content), before |-> before]
                  ELSE [value |-> r.value, exc |-> r.exc, store |-> got.store,
                        prompts |-> r.prompts,
                        events |-> <<"cache.get">> \o unlinked \o r.events,
                        content |-> Some(content), before |-> before]

\* templates the formatter can load: the two shipped ones, and one of a
\* configured template directory whose rendering raises
Templates == {"simple.j2", "conventional.j2", "broken.j2"}

\* the text a template renders for (ctx, model_output)
Render(template, ctx, model_output) == model_output

\* a failure of the template engine that leaves format as it was raised
FormatFailure_unwrapped(cause) == cause

\* "except Exception as e: raise FormatterError(...) from e"
FormatFailure(cause) == "FormatterError"

\* what goes wrong with a template: nothing, it is not in the template
\* directory, or rendering it raises
TemplateFailure(template) ==
    IF template \notin Templates THEN "TemplateNotFound"
    ELSE IF template = "broken.j2" THEN "UndefinedError"
    ELSE "none"

\* a formatter that hands back the rendered text without its last character
Jinja2Formatter_format_truncating(template, ctx, model_output) ==
    IF TemplateFailure(template) /= "none"
    THEN [ok |-> FALSE, text |-> <<>>, exc |-> FormatFailure(TemplateFailure(template))]
    ELSE [ok |-> TRUE, exc |-> "none",
          text |-> SubSeq(Render(template, ctx, model_output), 1,
                          Len(Render(template, ctx, model_output)) - 1)]

\* Jinja2Formatter.format
Jinja2Formatter_format(template, ctx, model_output) ==
    IF TemplateFailure(template) /= "none"
    THEN [ok |-> FALSE, text |-> <<>>, exc |-> FormatFailure(TemplateFailure(template))]
    ELSE [ok |-> TRUE, text |-> Render(template, ctx, model_output), exc |-> "none"]

(***************************************************************************)
(* Configurations                                                          *)
(***************************************************************************)
MaxTtl == 1

\* cache settings of a Config: [enabled, ttl_sec], and whether the cache
\* directory can be created
CacheSettings ==
    { [enabled |-> e, ttl_sec |-> t, mkdir_ok |-> m] :
        e \in BOOLEAN, t \in 0..MaxTtl, m \in BOOLEAN }

NoCache == [present |-> FALSE, ttl_sec |-> 0]

\* CommitMessageGenerator.__init__: the cache object the generator holds
Generator_cache(cs) ==
    IF cs.enabled THEN Cache_init(cs.ttl_sec, cs.mkdir_ok) ELSE NoCache

CollectorConfig(type) == [type |-> type, options |-> "default"]

\* the entries of a list at the positions in S, in order
RECURSIVE Select(_, _, _)
Select(l, S, i) ==
    IF i > Len(l) THEN <<>>
    ELSE (IF i \in S THEN <<l[i]>> ELSE <<>>) \o Select(l, S, i + 1)

\* the concrete producer kinds
ConcreteKinds == <<"diff", "history", "readme", "issue">>

\* configured collector lists: every subset of the concrete kinds, lists
\* with a plugin producer, with an unregistered kind, with rejected options
CollectorLists ==
    { [i \in 1..Len(Select(ConcreteKinds, S, 1)) |-> CollectorConfig(Select(ConcreteKinds, S, 1)[i])] :
        S \in SUBSET (1..Len(ConcreteKinds)) }
    \cup { <<CollectorConfig("plugin")>>,
           <<CollectorConfig("plugin"), CollectorConfig("plugin")>>,
           <<CollectorConfig("plugin"), CollectorConfig("readme")>>,
           <<CollectorConfig("readme"), CollectorConfig("plugin")>>,
           <<CollectorConfig("diff"), CollectorConfig("plugin")>>,
           <<CollectorConfig("mcp"), CollectorConfig("dummy")>>,
           <<CollectorConfig("readme"), CollectorConfig("branch")>>,
           <<CollectorConfig("unregistered")>>,
           <<CollectorConfig("plugin"), CollectorConfig("unregistered")>>,
           <<CollectorConfig("plugin"), [type |-> "history", options |-> "rejected"]>> }

Config(collectors, provider, template) ==
    [collectors |-> collectors, provider |-> provider, template |-> template,
     language |-> "en"]

Configs ==
    { Config(c, "dummy", "simple.j2") : c \in CollectorLists }
    \cup { Config(<<CollectorConfig("plugin")>>, "unregistered", "simple.j2"),
           Config(<<CollectorConfig("plugin")>>, "dummy", "missing.j2"),
           Config(<<CollectorConfig("readme")>>, "dummy", "broken.j2") }

(***************************************************************************)
(* The environment of the process                                          *)
(***************************************************************************)
\* "k", "u": a key and a base URL
KeyText == <<107>>
UrlText == <<117>>

EnvVariables == {"OPENAI_API_KEY", "ANTHROPIC_API_KEY", "DEEPSEEK_API_KEY",
                 "LOCAL_API_KEY", "OLLAMA_BASE_URL"}

\* os.environ: each variable unset or set
Environments ==
    { [v \in EnvVariables |->
         IF v \in S THEN Some(IF v = "OLLAMA_BASE_URL" THEN UrlText ELSE KeyText) ELSE None] :
      S \in SUBSET EnvVariables }

\* an environment with none of the variables set
NoEnvironment == [v \in EnvVariables |-> None]

(***************************************************************************)
(* State                                                                   *)
(***************************************************************************)
\* a generate call that has not done anything yet
NewRun(stream) ==
    [stream |-> stream,
     tasks |-> 0,                    \* collectors whose collect was started
     results |-> <<>>,               \* what gather returned, while in scope
     combined_data |-> EmptyMap,     \* _collect_context's return value
     collected |-> FALSE,            \* _collect_context returned
     context |-> DefaultContext,     \* the aggregated Context
     aggregated |-> FALSE,           \* _aggregate_context returned
     prompts |-> <<>>,               \* prompts built for the provider
     raw |-> NoValue,                \* _generate_raw_message's return value
     raw_at |-> 0,                   \* when it returned or raised
     content |-> None,               \* the content the cache was asked for
     before |-> NotFound,            \* the record the cache held for it
     result |-> NoValue,             \* generate's return value
     error |-> NoError,              \* the exception generate raised
     trace |-> <<>>]                 \* calls made, in order

\* what is remembered of the generate call that completed last, when it was
\* a non-streaming call that obtained raw text
NoPrev == [valid |-> FALSE, diffs |-> <<>>, content |-> None, raw |-> <<>>,
           raw_at |-> 0, calls |-> 0]
Summary(r) ==
    IF ~r.stream /\ r.raw.t = "str"
    THEN [valid |-> TRUE, diffs |-> DiffsOf(r.context.files), content |-> r.content,
          raw |-> r.raw.v, raw_at |-> r.raw_at,
          calls |-> Cardinality({i \in 1..Len(r.trace) : r.trace[i] = "provider.generate"})]
    ELSE NoPrev

TypeOK ==
    /\ cache.present \in BOOLEAN
    /\ cache.ttl_sec \in 0..(MaxTtl + 1)
    /\ now \in 0..(MaxTime + 1)
    /\ pc \in {"idle", "collect", "aggregate", "raw", "format", "done"}
    /\ config \in Configs
    /\ run.stream \in BOOLEAN

Init ==
    /\ config \in Configs
    /\ \E cs \in CacheSettings : cache = Generator_cache(cs)
    /\ store = EmptyMap
    /\ now = 0
    /\ hist = <<>>
    /\ pc = "idle"
    /\ run = NewRun(FALSE)
    /\ prev = NoPrev
    /\ components = EmptyMap
    /\ environ = NoEnvironment

(***************************************************************************)
(* generate, step by step                                                  *)
(***************************************************************************)
Count(events, e) == Cardinality({i \in 1..Len(events) : events[i] = e})

Fail(r, type, by) == [r EXCEPT !.error = Error(type, by)]

\* an except clause of generate that logs the failure of the collection and
\* goes on
AfterFailure_swallowed(phase) == IF phase = "collect" THEN "aggregate" ELSE "done"

\* where generate is after a phase failed: the exception leaves generate
\* ("raise" in each except clause, nothing around line 55)
AfterFailure(phase) == "done"

\* generate(stream) is called
Begin(stream) ==
    /\ pc \in {"idle", "done"}
    /\ prev' = Summary(run)
    /\ run' = NewRun(stream)
    /\ pc' = "collect"
    /\ UNCHANGED <<environ, components, cache, store, now, hist, config>>

\* _collect_context, lines 80-106, and the except clause of generate
CollectContext ==
    /\ pc = "collect"
    /\ LET collectors == config.collectors
           n == Len(collectors)
           bad == FirstNotCreated(collectors, 1)
           kinds == [i \in 1..n |-> collectors[i].type]
           created(k) == [i \in 1..(2 * k) |->
                            IF i % 2 = 1 THEN "collector_registry.get" ELSE "collector.init"]
       IN  IF bad /= 0
           THEN /\ run' = [Fail(run, IF collectors[bad].type \in collector_registry
                                     THEN "CollectorError"
                                     ELSE LookupFailure(collectors[bad].type), bad) EXCEPT
                             !.trace = created(bad - 1) \o
                                 (IF collectors[bad].type \in collector_registry
                                  THEN <<"collector_registry.get", "collector.init">>
                                  ELSE <<"collector_registry.get">>)]
                /\ pc' = AfterFailure("collect")
           ELSE \E outs \in OutcomeSeqs(kinds) :
                  LET failing == {i \in 1..n : ~outs[i].ok}
                      started == created(n) \o [i \in 1..n |-> "collect"]
                  IN  IF failing /= {}
                      THEN \E i \in failing :
                             /\ run' = [Fail(run, outs[i].exc, i) EXCEPT
                                          !.tasks = n, !.trace = started]
                             /\ pc' = AfterFailure("collect")
                      ELSE /\ run' = [run EXCEPT !.tasks = n, !.results = outs,
                                        !.combined_data = Merge(outs),
                                        !.collected = TRUE, !.trace = started]
                           /\ pc' = "aggregate"
    /\ UNCHANGED <<environ, components, cache, store, now, hist, config, prev>>

\* _aggregate_context, line 55
AggregateContext ==
    /\ pc = "aggregate"
    /\ LET a == aggregate_context(run.combined_data) IN
       IF a.ok
       THEN /\ run' = [run EXCEPT !.context = a.context, !.aggregated = TRUE,
                         !.results = <<>>, !.trace = @ \o <<"Context">>]
            /\ pc' = "raw"
       ELSE /\ run' = [Fail(run, a.exc, 0) EXCEPT !.results = <<>>,
                         !.trace = @ \o <<"Context">>]
            /\ pc' = AfterFailure("aggregate")
    /\ UNCHANGED <<environ, components, cache, store, now, hist, config, prev>>

\* _generate_raw_message, lines 59-68: a streaming call returns here
GenerateRawMessage ==
    /\ pc = "raw"
    /\ \E backend \in Backends :
         LET g == generate_raw_message(config, cache, store, now, run.context, run.stream, backend) IN
         /\ store' = g.store
         /\ IF g.exc /= "none"
            THEN /\ run' = [Fail(run, g.exc, 0) EXCEPT !.prompts = g.prompts,
                              !.raw_at = now, !.content = g.content,
                              !.before = g.before, !.trace = @ \o g.events]
                 /\ pc' = AfterFailure("raw")
            ELSE /\ run' = [run EXCEPT !.raw = g.value, !.raw_at = now,
                              !.content = g.content, !.before = g.before,
                              !.prompts = g.prompts, !.trace = @ \o g.events,
                              !.result = IF run.stream THEN g.value ELSE @]
                 /\ pc' = IF run.stream THEN "done" ELSE "format"
    /\ UNCHANGED <<environ, components, cache, now, hist, config, prev>>

\* _format_message, lines 69-78
FormatMessage ==
    /\ pc = "format"
    /\ LET f == Jinja2Formatter_format(config.template, run.context, run.raw.v) IN
       IF f.ok
       THEN run' = [run EXCEPT !.result = StrValue(f.text), !.trace = @ \o <<"format">>]
       ELSE run' = [Fail(run, f.exc, 0) EXCEPT !.trace = @ \o <<"format">>]
    /\ pc' = "done"
    /\ UNCHANGED <<environ, components, cache, store, now, hist, config, prev>>

\* time passes between two calls of generate
Tick ==
    /\ pc \in {"idle", "done"}
    /\ now < MaxTime
    /\ now' = now + 1
    /\ UNCHANGED <<environ, components, cache, store, hist, config, pc, run, prev>>

Next ==
    \/ \E stream \in BOOLEAN : Begin(stream)
    \/ CollectContext
    \/ AggregateContext
    \/ GenerateRawMessage
    \/ FormatMessage
    \/ Tick

Spec == Init /\ [][Next]_vars

(***************************************************************************)
(* The Cache used directly: set and get on one cache directory             *)
(***************************************************************************)
\* contents and values passed to the cache
CacheContents == { DiffA, diff_content(<<FileA, FileB>>) }
CacheValues == { EmptyStr, MsgF }

\* cache directories left by earlier processes
Directories ==
    { EmptyMap,
      WriteFile(EmptyMap, get_key(DiffA), JsonDump([timestamp |-> 0, value |-> Some(MsgF)])) }

\* the last two calls, oldest first
Remember(h, call) == IF Len(h) = 2 THEN <<h[2], call>> ELSE Append(h, call)

InitCache ==
    /\ config = Config(<<>>, "dummy", "simple.j2")
    /\ \E t \in 0..MaxTtl, m \in BOOLEAN : cache = Cache_init(t, m)
    /\ store \in Directories
    /\ now = 0
    /\ hist = <<>>
    /\ pc = "idle"
    /\ run = NewRun(FALSE)
    /\ prev = NoPrev
    /\ components = EmptyMap
    /\ environ = NoEnvironment

\* cache.set(content, value)
ApiSet(content, value) ==
    /\ store' = Cache_set(cache, store, now, content, value)
    /\ hist' = Remember(hist, [op |-> "set", content |-> content, value |-> Some(value),
                               at |-> now, before |-> RecordOf(store, content)])
    /\ UNCHANGED <<environ, components, cache, now, config, pc, run, prev>>

\* cache.get(content)
ApiGet(content) ==
    /\ LET got == Cache_get(cache, store, now, content) IN
       /\ store' = got.store
       /\ hist' = Remember(hist, [op |-> "get", content |-> content, value |-> got.value,
                                  at |-> now, before |-> RecordOf(store, content)])
    /\ UNCHANGED <<environ, components, cache, now, config, pc, run, prev>>

NextCache ==
    \/ \E content \in CacheContents, value \in CacheValues : ApiSet(content, value)
    \/ \E content \in CacheContents : ApiGet(content)
    \/ Tick

SpecCache == InitCache /\ [][NextCache]_vars

\* the last call and the one before it
LastCall == hist[Len(hist)]
CallBefore == hist[Len(hist) - 1]

ExpiryRule(call) ==
    LET age == call.at - call.before.timestamp IN
    /\ (call.value = call.before.value) <=> (age <= cache.ttl_sec)
    /\ age > cache.ttl_sec =>
         /\ call.value = None
         /\ ~RecordOf(store, call.content).found

Calls(r, e) == Count(r.trace, e)

\* the run made no call to the cache
NoCacheCalls(r) ==
    Calls(r, "cache.get") = 0 /\ Calls(r, "cache.set") = 0 /\ Calls(r, "cache.unlink") = 0

\* the run went neither to the provider registry nor to a provider
NoProviderCalls(r) ==
    /\ Calls(r, "provider_registry.get") = 0
    /\ Calls(r, "provider.init") = 0
    /\ Calls(r, "provider.generate") = 0

\* _generate_raw_message of the current run has returned or raised
RawPhaseOver == pc \in {"format", "done"} /\ run.aggregated

\* two lists hold the same texts, each as many times
SameCollection(a, b) ==
    /\ Len(a) = Len(b)
    /\ \A i \in 1..Len(a) :
         Cardinality({j \in 1..Len(a) : a[j] = a[i]}) = Cardinality({j \in 1..Len(b) : b[j] = a[i]})

\* C1: with caching enabled and ttl_sec > 0, a non-streaming run on
\* non-empty file diffs that finds no record calls the backend exactly once
\* and stores the response; the next non-streaming run with the same file
\* diffs inside the TTL returns the stored response without calling the
\* backend, for any response string.
C1_SecondRunServedFromCache ==
    /\ (/\ RawPhaseOver /\ ~run.stream /\ run.content.some
        /\ ~run.before.found /\ run.raw.t = "str")
       => /\ Calls(run, "provider.generate") = 1
          /\ RecordOf(store, run.content.v).found
          /\ RecordOf(store, run.content.v).value = Some(run.raw.v)
    /\ (/\ RawPhaseOver /\ ~run.stream /\ run.content.some
        /\ prev.valid /\ prev.content.some /\ prev.calls = 1
        /\ SameCollection(prev.diffs, DiffsOf(run.context.files))
        /\ run.raw_at - prev.raw_at <= cache.ttl_sec)
       => /\ NoProviderCalls(run)
          /\ run.raw = StrValue(prev.raw)

\* C4: two Contexts whose files carry the same diff texts in different
\* orders are looked up in the cache under the same key.
C4_KeyStability ==
    (/\ RawPhaseOver /\ run.content.some
     /\ prev.valid /\ prev.content.some
     /\ SameCollection(prev.diffs, DiffsOf(run.context.files)))
    => get_key(run.content.v) = get_key(prev.content.v)

\* two consecutive runs over the same two diffs listed in opposite orders,
\* the second one served from the record of the first
C4_Witness ==
    /\ RawPhaseOver /\ run.content.some
    /\ prev.valid /\ prev.content.some
    /\ SameCollection(prev.diffs, DiffsOf(run.context.files))
    /\ prev.diffs /= DiffsOf(run.context.files)
    /\ get_key(run.content.v) = get_key(prev.content.v)
    /\ NoProviderCalls(run)
    /\ run.raw = StrValue(prev.raw)

\* C5: a streaming run makes no cache lookup, writes and deletes no record,
\* whatever the cache configuration and contents, and returns the
\* backend's stream without invoking the formatter.
C5_StreamingSkipsCache ==
    [][(pc = "raw" /\ run.stream)
       => /\ store' = store
          /\ NoCacheCalls(run')
          /\ Calls(run', "format") = 0
          /\ pc' = "done"
          /\ run'.error = NoError => (run'.result.t = "stream" /\ run'.result = run'.raw)]_vars

\* a streaming run that returned the stream while the enabled cache held
\* a record for the diffs of its files
C5_Witness ==
    /\ pc = "done" /\ run.stream
    /\ run.result.t = "stream"
    /\ is_enabled(cache)
    /\ run.context.files /= <<>>
    /\ RecordOf(store, diff_content(run.context.files)).found

\* C6: a non-streaming run whose Context has no file diffs goes to the
\* backend and neither reads nor writes the cache, even when caching is
\* enabled and records exist.
C6_NoDiffsNoCache ==
    [][(pc = "raw" /\ ~run.stream /\ run.context.files = <<>>)
       => /\ store' = store
          /\ NoCacheCalls(run')
          /\ Calls(run', "provider_registry.get") = 1
          /\ run'.error = NoError => Calls(run', "provider.generate") = 1]_vars

\* a non-streaming run without diffs that got its text from the backend
\* while the enabled cache held records
C6_Witness ==
    /\ RawPhaseOver /\ ~run.stream
    /\ run.context.files = <<>>
    /\ is_enabled(cache) /\ cache.present
    /\ DOMAIN store /= {}
    /\ Calls(run, "provider.generate") = 1
    /\ run.raw.t = "str"

\* some configured collector has a kind the registry does not hold
HasUnregisteredKind ==
    \E i \in 1..Len(config.collectors) : config.collectors[i].type \notin collector_registry

\* C7: with a producer of an unregistered kind configured, generate fails
\* with CollectorError without instantiating or calling the backend,
\* reading or writing the cache, or invoking the formatter.
C7_UnregisteredKind ==
    HasUnregisteredKind =>
        /\ pc \in {"idle", "collect", "done"}
        /\ store = EmptyMap
        /\ pc = "done" =>
             /\ run.error.type = "CollectorError"
             /\ NoProviderCalls(run)
             /\ NoCacheCalls(run)
             /\ Calls(run, "format") = 0
             /\ run.result = NoValue

\* a run that failed on the unregistered second collector of an enabled cache
C7_Witness ==
    /\ HasUnregisteredKind
    /\ Len(config.collectors) = 2
    /\ is_enabled(cache)
    /\ pc = "done"
    /\ run.error = Error("CollectorError", 2)

\* the collection phase of the run failed while the producers were running
GatherFailed == pc = "done" /\ run.tasks > 0 /\ ~run.collected

\* C8: when a producer's collect fails with any exception, generate fails
\* with a CollectorError naming that producer, and nothing any producer
\* returned reaches the Context, the prompt or the cache.
C8_FailFast ==
    GatherFailed =>
        /\ run.error.type = "CollectorError"
        /\ run.error.by \in 1..Len(config.collectors)
        /\ run.combined_data = EmptyMap
        /\ ~run.aggregated /\ run.context = DefaultContext
        /\ run.prompts = <<>>
        /\ NoCacheCalls(run)

\* the producers that returned a non-empty value for a key
Suppliers(results, k) ==
    {i \in 1..Len(results) : k \in DOMAIN results[i].data /\ Truthy(results[i].data[k])}

AllKeys(results) == UNION {DOMAIN results[i].data : i \in 1..Len(results)}

Max(S) == CHOOSE x \in S : \A y \in S : y <= x

\* C9: the merged mapping holds exactly the keys some producer returned a
\* non-empty value for, each with the non-empty value of the last producer
\* in configured order that supplied one.
C9_MergePolicy ==
    (pc = "aggregate") =>
        /\ DOMAIN run.combined_data =
             {k \in AllKeys(run.results) : Suppliers(run.results, k) /= {}}
        /\ \A k \in DOMAIN run.combined_data :
             run.combined_data[k] = run.results[Max(Suppliers(run.results, k))].data[k]

\* two producers returned the same two keys: for one the later value is
\* empty and the earlier one stays, for the other the later value wins
C9_Witness ==
    /\ pc = "aggregate"
    /\ Len(run.results) = 2
    /\ \E k \in DOMAIN run.results[1].data \cap DOMAIN run.results[2].data :
         /\ Truthy(run.results[1].data[k]) /\ ~Truthy(run.results[2].data[k])
         /\ run.combined_data[k] = run.results[1].data[k]
    /\ \E k \in DOMAIN run.results[1].data \cap DOMAIN run.results[2].data :
         /\ Truthy(run.results[1].data[k]) /\ Truthy(run.results[2].data[k])
         /\ run.results[1].data[k] /= run.results[2].data[k]
         /\ run.combined_data[k] = run.results[2].data[k]

\* a merged value is present in the Context
CarriedBy(ctx, val) ==
    CASE val.t = "str" ->
           \/ ctx.readme = Some(val.v)
           \/ \E i \in 1..Len(ctx.files) : ctx.files[i].diff = val.v
      [] val.t = "list" ->
           ctx.recent_commits = val.v \/ ctx.files = val.v \/ ctx.issues = val.v
      [] val.t = "dict" ->
           ctx.meta = val.v \/ \E i \in 1..Len(ctx.issues) : ctx.issues[i] = val.v
      [] OTHER -> FALSE

OnlyConcreteKinds ==
    \A i \in 1..Len(config.collectors) :
        \E j \in 1..Len(ConcreteKinds) : config.collectors[i].type = ConcreteKinds[j]

\* C10: for any subset of the producers diff, history, readme and issue,
\* the Context is built without error and carries every non-empty value
\* they returned.
C10_ContextCarriesValues ==
    /\ (pc = "done" /\ run.collected /\ OnlyConcreteKinds) => run.error.type /= "ValidationError"
    /\ (run.aggregated /\ OnlyConcreteKinds) =>
         \A k \in DOMAIN run.combined_data : CarriedBy(run.context, run.combined_data[k])

(***************************************************************************)
(* Properties of the phases of generate                                    *)
(***************************************************************************)
ProviderEvents == {"provider_registry.get", "provider.init", "create_prompt", "provider.generate"}

\* the calls made before the i-th one
Before(r, i) == SubSeq(r.trace, 1, i - 1)

\* C11: in every generate run the backend is instantiated and called only
\* after every configured producer has completed successfully, the
\* formatter is invoked only after raw text has been obtained from the
\* cache or the backend, and once a phase has failed no later phase starts.
C11_PhaseOrder ==
    /\ \A i \in 1..Len(run.trace) :
         /\ run.trace[i] \in ProviderEvents =>
              /\ run.collected
              /\ Count(Before(run, i), "collect") = Len(config.collectors)
              /\ Count(Before(run, i), "Context") = 1
         /\ run.trace[i] = "format" =>
              /\ run.raw.t = "str"
              /\ \/ Count(Before(run, i), "provider.generate") = 1
                 \/ (Count(Before(run, i), "cache.get") = 1 /\ IsHit(Some(run.raw.v)))
    /\ run.error /= NoError =>
         /\ pc = "done"
         /\ ~run.collected => Len(run.trace) = Count(run.trace, "collector_registry.get")
                                + Count(run.trace, "collector.init") + Count(run.trace, "collect")
         /\ ~run.aggregated => NoProviderCalls(run) /\ NoCacheCalls(run)
         /\ run.raw.t = "none" => Count(run.trace, "format") = 0

\* a run over two producers that called the backend and then the formatter
C11_Witness ==
    /\ pc = "done" /\ run.error = NoError
    /\ Len(config.collectors) = 2
    /\ Count(run.trace, "collect") = 2
    /\ Count(run.trace, "provider.generate") = 1
    /\ run.trace[Len(run.trace)] = "format"
    /\ run.result.t = "str"

(***************************************************************************)
(* Properties of the errors of generate                                    *)
(***************************************************************************)
TypedErrors == {"CollectorError", "ProviderError", "FormatterError", "ConfigError"}

\* C12: every failure of generate reaches the caller as CollectorError,
\* ProviderError, FormatterError or ConfigError, also when a producer's
\* collect raises another exception, when building the Context fails and
\* when a backend fails while decoding a successful response.
C12_TypedFailures ==
    run.error /= NoError => run.error.type \in TypedErrors

\* C13: no retries: within one generate run there are at most as many
\* collect calls as configured producers, one per producer, and at most one
\* call of the backend's generate, whatever succeeds or fails, a cache miss
\* and a backend error included.
C13_NoRetries ==
    /\ Count(run.trace, "collect") <= Len(config.collectors)
    /\ Count(run.trace, "collect") \in {0, run.tasks}
    /\ Count(run.trace, "provider.generate") <= 1
    /\ Count(run.trace, "provider.init") <= 1
    /\ (pc = "done" /\ run.aggregated /\ run.error.type \in {"ProviderError", "KeyError"}
        /\ Count(run.trace, "provider.init") = 1 /\ run.prompts /= <<>>)
       => Count(run.trace, "provider.generate") = 1

\* a run over two producers that missed the cache and failed in the backend
C13_Witness ==
    /\ pc = "done"
    /\ Len(config.collectors) = 2 /\ Count(run.trace, "collect") = 2
    /\ Count(run.trace, "cache.get") = 1
    /\ Count(run.trace, "provider.generate") = 1
    /\ run.error.type = "ProviderError"

(***************************************************************************)
(* Properties of the result of generate                                    *)
(***************************************************************************)
\* texts a backend can return
BackendTexts == { b.text : b \in {x \in Backends : x.init /\ x.gen = "ok"} }

\* C14: the result of a successful non-streaming generate is exactly the
\* string the formatter returns for (aggregated Context, raw text), where
\* the raw text is the backend's response or the cached value, unmodified;
\* with a formatter that returns the model output unchanged, the result
\* equals the raw text.
C14_ResultIsFormatterOutput ==
    [][/\ (pc = "raw" /\ ~run.stream /\ pc' = "format") =>
            /\ run'.raw.t = "str"
            /\ run'.context = run.context
            /\ IF Calls(run', "provider.generate") = 0
               THEN /\ run'.content.some
                    /\ RecordOf(store, run'.content.v).value = Some(run'.raw.v)
               ELSE /\ run'.raw.v \in BackendTexts
                    /\ run'.content.some =>
                         RecordOf(store', run'.content.v).value = Some(run'.raw.v)
       /\ (pc = "format" /\ run'.error = NoError) =>
            /\ pc' = "done"
            /\ run'.raw = run.raw
            /\ run'.result = StrValue(Render(config.template, run.context, run.raw.v))
            /\ config.template = "simple.j2" => run'.result = run.raw]_vars

\* a run whose result is the non-empty text found in the cache
C14_Witness ==
    /\ pc = "done" /\ ~run.stream /\ run.error = NoError
    /\ Calls(run, "cache.get") = 1 /\ Calls(run, "provider.generate") = 0
    /\ Calls(run, "format") = 1
    /\ run.result = StrValue(MsgF)
    /\ run.before.value = Some(MsgF)

\* the raw text of the run came from a cache hit or from the backend
RawObtained(r) ==
    /\ r.raw.t = "str"
    /\ \/ Calls(r, "provider.generate") = 1
       \/ (Calls(r, "cache.get") = 1 /\ r.before.found /\ r.before.value = Some(r.raw.v))

\* C15: a failure of the formatter (missing template, render error)
\* surfaces from generate as FormatterError, never as CollectorError or
\* ProviderError, and occurs only after the raw text has been obtained.
C15_FormatterFailure ==
    /\ (Calls(run, "format") = 1 /\ TemplateFailure(config.template) /= "none") =>
         /\ pc = "done"
         /\ run.error.type = "FormatterError"
         /\ run.result = NoValue
         /\ RawObtained(run)
         /\ run.trace[Len(run.trace)] = "format"
    /\ run.error.type = "FormatterError" =>
         /\ Calls(run, "format") = 1
         /\ TemplateFailure(config.template) /= "none"
         /\ RawObtained(run)
    /\ (pc = "done" /\ ~run.stream /\ run.error = NoError) =>
         TemplateFailure(config.template) = "none"

\* a run that obtained a non-empty raw text from the backend and failed
\* while rendering the template
C15_Witness ==
    /\ pc = "done"
    /\ TemplateFailure(config.template) = "UndefinedError"
    /\ run.error.type = "FormatterError"
    /\ Calls(run, "provider.generate") = 1
    /\ run.raw = StrValue(MsgF)

(***************************************************************************)
(* core/registry.py: one Registry, used through its methods                *)
(***************************************************************************)
\* names components are registered and looked up under
RegistryNames == {"dummy", "other", "nonexistent"}

\* component classes: the class name, and the exception the constructor
\* raises when it does not accept its arguments ("none": it accepts any)
ComponentClasses ==
    { [name |-> "DummyCollector", rejects |-> "none"],
      [name |-> "AnotherDummyCollector", rejects |-> "TypeError"],
      [name |-> "OpenAIProvider", rejects |-> "ProviderError"],
      [name |-> "EnvReader", rejects |-> "KeyError"] }

NoClass == [name |-> "NoneType", rejects |-> "TypeError"]

\* constructor arguments: accepted by every class, or rejected by those
\* that check them
ConstructorArgs == {"default", "rejected"}

NoInstance == [cls |-> "none", args |-> "none"]

\* component_class(*args, **kwargs)
Component_init(cls, args) ==
    IF args = "rejected" /\ cls.rejects /= "none"
    THEN [ok |-> FALSE, instance |-> NoInstance, exc |-> cls.rejects]
    ELSE [ok |-> TRUE, instance |-> [cls |-> cls.name, args |-> args], exc |-> "none"]

\* a decorator that replaces the class registered under the name
Registry_register_overwriting(comps, name, cls) ==
    [components |-> [k \in DOMAIN comps \cup {name} |-> IF k = name THEN cls ELSE comps[k]],
     exc |-> "none"]

\* Registry.register(name)(cls)
Registry_register(comps, name, cls) ==
    IF name \in DOMAIN comps
    THEN [components |-> comps, exc |-> "ValueError"]
    ELSE [components |-> [k \in DOMAIN comps \cup {name} |-> IF k = name THEN cls ELSE comps[k]],
          exc |-> "none"]

\* a lookup that answers None for a name it does not hold
Registry_get_lenient(comps, name) ==
    IF name \notin DOMAIN comps
    THEN [ok |-> TRUE, cls |-> NoClass, exc |-> "none"]
    ELSE [ok |-> TRUE, cls |-> comps[name], exc |-> "none"]

\* Registry.get(name)
Registry_get(comps, name) ==
    IF name \notin DOMAIN comps
    THEN [ok |-> FALSE, cls |-> NoClass, exc |-> "KeyError"]
    ELSE [ok |-> TRUE, cls |-> comps[name], exc |-> "none"]

\* Registry.create(name, *args, **kwargs): the exception of the lookup or
\* of the constructor leaves create as it was raised, with no cause set
Registry_create(comps, name, args) ==
    LET g == Registry_get(comps, name) IN
    IF ~g.ok
    THEN [ok |-> FALSE, cls |-> g.cls, instance |-> NoInstance, exc |-> g.exc, cause |-> "none"]
    ELSE LET c == Component_init(g.cls, args) IN
         [ok |-> c.ok, cls |-> g.cls, instance |-> c.instance, exc |-> c.exc, cause |-> "none"]

\* Registry.__contains__(name)
Registry_contains(comps, name) == name \in DOMAIN comps

\* Registry.keys() and Registry.__iter__()
Registry_keys(comps) == DOMAIN comps

\* a call of a Registry method and its outcome
RegistryCall(op, name, arg, ok, exc, cause, result) ==
    [op |-> op, name |-> name, arg |-> arg, ok |-> ok, exc |-> exc, cause |-> cause,
     result |-> result]

\* Registry("collector")
InitRegistry ==
    /\ config = Config(<<>>, "dummy", "simple.j2")
    /\ cache = NoCache
    /\ store = EmptyMap
    /\ now = 0
    /\ hist = <<>>
    /\ pc = "idle"
    /\ run = NewRun(FALSE)
    /\ prev = NoPrev
    /\ components = EmptyMap
    /\ environ = NoEnvironment

Register(name, cls) ==
    /\ LET r == Registry_register(components, name, cls) IN
       /\ components' = r.components
       /\ hist' = << RegistryCall("register", name, cls, r.exc = "none", r.exc, "none", cls) >>
    /\ UNCHANGED <<environ, cache, store, now, config, pc, run, prev>>

Get(name) ==
    /\ LET r == Registry_get(components, name) IN
       hist' = << RegistryCall("get", name, "none", r.ok, r.exc, "none", r.cls) >>
    /\ UNCHANGED <<environ, components, cache, store, now, config, pc, run, prev>>

Create(name, args) ==
    /\ LET r == Registry_create(components, name, args) IN
       hist' = << RegistryCall("create", name, args, r.ok, r.exc, r.cause, r.instance) >>
    /\ UNCHANGED <<environ, components, cache, store, now, config, pc, run, prev>>

Contains(name) ==
    /\ hist' = << RegistryCall("contains", name, "none", TRUE, "none", "none",
                               Registry_contains(components, name)) >>
    /\ UNCHANGED <<environ, components, cache, store, now, config, pc, run, prev>>

Keys ==
    /\ hist' = << RegistryCall("keys", "none", "none", TRUE, "none", "none",
                               Registry_keys(components)) >>
    /\ UNCHANGED <<environ, components, cache, store, now, config, pc, run, prev>>

NextRegistry ==
    \/ \E name \in RegistryNames, cls \in ComponentClasses : Register(name, cls)
    \/ \E name \in RegistryNames : Get(name)
    \/ \E name \in RegistryNames, args \in ConstructorArgs : Create(name, args)
    \/ \E name \in RegistryNames : Contains(name)
    \/ Keys

SpecRegistry == InitRegistry /\ [][NextRegistry]_vars

(***************************************************************************)
(* Properties of the Registry                                              *)
(***************************************************************************)
\* C16: registry names are unique and append-only: whatever method is
\* called, every registered name stays mapped to the component it was
\* first registered with; registering a present name raises an error and
\* leaves the registry unchanged, and only registering a new name adds one.
C16_AppendOnly ==
    [][/\ \A n \in DOMAIN components :
            n \in DOMAIN components' /\ components'[n] = components[n]
       /\ (LastCall'.op = "register" /\ LastCall'.name \in DOMAIN components) =>
            /\ LastCall'.exc = "ValueError"
            /\ components' = components
       /\ (LastCall'.op = "register" /\ LastCall'.name \notin DOMAIN components) =>
            /\ LastCall'.exc = "none"
            /\ DOMAIN components' = DOMAIN components \cup {LastCall'.name}
            /\ components'[LastCall'.name] = LastCall'.arg
       /\ (LastCall'.op /= "register") => components' = components]_vars

\* registering another class under a name that is present failed and the
\* name kept its class, next to a second registered name
C16_Witness ==
    /\ Len(hist) = 1
    /\ LastCall.op = "register" /\ LastCall.exc = "ValueError"
    /\ LastCall.name \in DOMAIN components
    /\ components[LastCall.name] /= LastCall.arg
    /\ Cardinality(DOMAIN components) = 2

\* C17: get and create of a name that is not registered fail with the
\* not-found error (KeyError); for a registered name get returns the
\* registered component and create looks that component up; a lookup,
\* failed or not, leaves the registry unchanged.
C17_Lookup ==
    [][(LastCall'.op \in {"get", "create"}) =>
         /\ components' = components
         /\ LastCall'.name \notin DOMAIN components =>
              /\ ~LastCall'.ok
              /\ LastCall'.exc = "KeyError"
         /\ (LastCall'.name \in DOMAIN components /\ LastCall'.op = "get") =>
              /\ LastCall'.ok
              /\ LastCall'.result = components[LastCall'.name]
         /\ (LastCall'.name \in DOMAIN components /\ LastCall'.op = "create") =>
              /\ LastCall'.exc \in {"none", components[LastCall'.name].rejects}
              /\ LastCall'.ok => LastCall'.result.cls = components[LastCall'.name].name]_vars

\* create of a name that was never registered failed with KeyError on a
\* registry that holds other names
C17_Witness ==
    /\ Len(hist) = 1
    /\ LastCall.op = "create" /\ ~LastCall.ok /\ LastCall.exc = "KeyError"
    /\ LastCall.name \notin DOMAIN components
    /\ Cardinality(DOMAIN components) = 2

\* C18: Registry.create on a registered name whose constructor raises
\* reports an InstantiationError carrying the original exception as its
\* cause, distinguishable from the not-found error of an unregistered name.
C18_InstantiationError ==
    (/\ Len(hist) = 1 /\ LastCall.op = "create"
     /\ LastCall.name \in DOMAIN components
     /\ ~Component_init(components[LastCall.name], LastCall.arg).ok)
    => /\ LastCall.exc = "InstantiationError"
       /\ LastCall.cause = Component_init(components[LastCall.name], LastCall.arg).exc
       /\ LastCall.exc /= Registry_create(components, "nonexistent", LastCall.arg).exc

(***************************************************************************)
(* core/llm: construction of the providers, get_provider, _call_provider   *)
(***************************************************************************)
\* the providers that talk to a service
ConcreteBackends == {"openai", "claude", "deepseek", "local"}

\* the environment variable each provider reads its key from
KeyVariable(kind) ==
    CASE kind = "openai" -> "OPENAI_API_KEY"
      [] kind = "claude" -> "ANTHROPIC_API_KEY"
      [] kind = "deepseek" -> "DEEPSEEK_API_KEY"
      [] kind = "local" -> "LOCAL_API_KEY"

\* ModelConfig: provider id, api_key (None, "", a key), base_url
ModelConfigs ==
    { [provider |-> p, api_key |-> k, base_url |-> u] :
        p \in provider_registry \cup {"unknown"},
        k \in {None, Some(EmptyStr), Some(KeyText)},
        u \in {None, Some(UrlText)} }

\* os.getenv(name, default)
getenv(env, name, default) == IF env[name].some THEN env[name] ELSE default

\* "a or b" on Optional[str]
Or(a, b) == IF a.some /\ a.v /= <<>> THEN a ELSE b

\* "if not x" on Optional[str]
Falsy(x) == ~x.some \/ x.v = <<>>

\* a key that falls back to a fixed text for every provider
Credential_with_default(kind, cfg, env) ==
    Or(cfg.api_key, getenv(env, KeyVariable(kind), Some(<<111>>)))

\* self._api_key of a provider: config.api_key or os.getenv(...), where the
\* local provider passes the default "ollama"
Credential(kind, cfg, env) ==
    IF kind = "local"
    THEN Or(cfg.api_key, getenv(env, "LOCAL_API_KEY", Some(<<111, 108, 108, 97, 109, 97>>)))
    ELSE Or(cfg.api_key, getenv(env, KeyVariable(kind), None))

\* self._base_url of the local provider
BaseUrl(cfg, env) == Or(cfg.base_url, getenv(env, "OLLAMA_BASE_URL", None))

\* __init__ of a registered provider: whether it returned, the exception
\* raised, whether the httpx client was created, requests sent
Provider_init(kind, cfg, env) ==
    IF kind = "dummy"
    THEN [ok |-> TRUE, exc |-> "none", client |-> FALSE, requests |-> 0]
    ELSE IF Falsy(Credential(kind, cfg, env))
    THEN [ok |-> FALSE, exc |-> "ProviderError", client |-> FALSE, requests |-> 0]
    ELSE IF kind = "local" /\ Falsy(BaseUrl(cfg, env))
    THEN [ok |-> FALSE, exc |-> "ProviderError", client |-> FALSE, requests |-> 0]
    ELSE [ok |-> TRUE, exc |-> "none", client |-> TRUE, requests |-> 0]

\* an error raised for an unknown id that names no provider
UnknownProvider_anonymous(provider) == "none"

\* the provider id in "Unknown provider '{config.provider}'. ..."
UnknownProvider(provider) == provider

\* provider_registry.create(config.provider, config=config)
provider_registry_create(cfg, env) ==
    IF cfg.provider \notin provider_registry
    THEN [ok |-> FALSE, exc |-> "KeyError", inits |-> 0, requests |-> 0]
    ELSE LET c == Provider_init(cfg.provider, cfg, env) IN
         [ok |-> c.ok, exc |-> c.exc, inits |-> 1, requests |-> c.requests]

\* get_provider(config)
get_provider(cfg, env) ==
    LET r == provider_registry_create(cfg, env) IN
    IF r.ok
    THEN [ok |-> TRUE, exc |-> "none", names |-> "none", cause |-> "none",
          inits |-> r.inits, requests |-> r.requests]
    ELSE IF r.exc = "KeyError"
    THEN [ok |-> FALSE, exc |-> "ProviderError", names |-> UnknownProvider(cfg.provider),
          cause |-> "none", inits |-> r.inits, requests |-> r.requests]
    ELSE [ok |-> FALSE, exc |-> "ProviderError", names |-> cfg.provider, cause |-> r.exc,
          inits |-> r.inits, requests |-> r.requests]

\* a call on the provider layer and its outcome
ProviderCall(op, cfg, env, ok, exc, names, inits, requests, client) ==
    [op |-> op, cfg |-> cfg, env |-> env, ok |-> ok, exc |-> exc, names |-> names,
     inits |-> inits, requests |-> requests, client |-> client]

InitProviders ==
    /\ config = Config(<<>>, "dummy", "simple.j2")
    /\ cache = NoCache
    /\ store = EmptyMap
    /\ now = 0
    /\ hist = <<>>
    /\ pc = "idle"
    /\ run = NewRun(FALSE)
    /\ prev = NoPrev
    /\ components = EmptyMap
    /\ environ \in Environments

\* OpenAIProvider(config), ClaudeProvider(config), ...
Construct(kind, cfg, env) ==
    /\ cfg.provider = kind
    /\ LET c == Provider_init(kind, cfg, env) IN
       hist' = << ProviderCall("construct", cfg, env, c.ok, c.exc, "none", 1, c.requests, c.client) >>
    /\ UNCHANGED <<environ, components, cache, store, now, config, pc, run, prev>>

GetProvider(cfg, env) ==
    /\ LET r == get_provider(cfg, env) IN
       hist' = << ProviderCall("get_provider", cfg, env, r.ok, r.exc, r.names, r.inits, r.requests,
                               r.ok /\ cfg.provider /= "dummy") >>
    /\ UNCHANGED <<environ, components, cache, store, now, config, pc, run, prev>>

\* _call_provider of a generator configured with the model config, for a
\* backend whose generate sends one request and returns
CallProvider(cfg, env, stream) ==
    /\ LET init == IF cfg.provider \in provider_registry
                   THEN Provider_init(cfg.provider, cfg, env).ok ELSE FALSE
           r == call_provider(Config(<<>>, cfg.provider, "simple.j2"), DefaultContext, stream,
                              [init |-> init, gen |-> "ok", text |-> MsgF])
       IN  hist' = << ProviderCall("_call_provider", cfg, env, r.exc = "none", r.exc, r.names,
                                   Count(r.events, "provider.init"),
                                   Count(r.events, "provider.generate"),
                                   init /\ cfg.provider /= "dummy") >>
    /\ UNCHANGED <<environ, components, cache, store, now, config, pc, run, prev>>

NextProviders ==
    \/ \E kind \in provider_registry, cfg \in ModelConfigs : Construct(kind, cfg, environ)
    \/ \E cfg \in ModelConfigs : GetProvider(cfg, environ)
    \/ \E cfg \in ModelConfigs, stream \in BOOLEAN : CallProvider(cfg, environ, stream)

SpecProviders == InitProviders /\ [][NextProviders]_vars

(***************************************************************************)
(* Properties of the providers                                             *)
(***************************************************************************)
\* neither the configuration nor the environment supplies a key
NoKey(call) ==
    /\ Falsy(call.cfg.api_key)
    /\ Falsy(call.env[KeyVariable(call.cfg.provider)])

NoBaseUrl(call) == Falsy(call.cfg.base_url) /\ Falsy(call.env["OLLAMA_BASE_URL"])

\* the construction failed with ProviderError before anything was sent
FailedAtConstruction(call) ==
    /\ ~call.ok /\ call.exc = "ProviderError"
    /\ ~call.client /\ call.requests = 0

\* C19 as stated: constructing openai, claude, deepseek or local when
\* neither the configuration nor the environment supplies a credential
\* raises ProviderError at construction, before any network request.
C19_Original ==
    (/\ Len(hist) = 1 /\ LastCall.op = "construct"
     /\ LastCall.cfg.provider \in ConcreteBackends
     /\ NoKey(LastCall))
    => FailedAtConstruction(LastCall)

\* C19 (amended): constructing openai, claude or deepseek without a key in
\* the configuration or the environment raises ProviderError at
\* construction, before any network request; local needs no key and raises
\* ProviderError at construction exactly when neither the configuration
\* nor OLLAMA_BASE_URL supplies a base URL.
C19_MissingCredential ==
    (Len(hist) = 1 /\ LastCall.op = "construct") =>
        /\ (LastCall.cfg.provider \in ConcreteBackends \ {"local"} /\ NoKey(LastCall))
             => FailedAtConstruction(LastCall)
        /\ LastCall.cfg.provider = "local" =>
             /\ NoBaseUrl(LastCall) => FailedAtConstruction(LastCall)
             /\ ~NoBaseUrl(LastCall) => (LastCall.ok /\ LastCall.client)
        /\ LastCall.requests = 0

\* claude constructed with an empty key in the configuration while only
\* the key of another provider is in the environment
C19_Witness ==
    /\ Len(hist) = 1 /\ LastCall.op = "construct"
    /\ LastCall.cfg.provider = "claude"
    /\ LastCall.cfg.api_key = Some(EmptyStr)
    /\ LastCall.env["OPENAI_API_KEY"].some
    /\ NoKey(LastCall)
    /\ FailedAtConstruction(LastCall)

\* C20: a backend id that is not in the provider registry is reported as
\* ProviderError naming the unknown provider, by get_provider and by the
\* orchestrator, before any backend instance exists and before any
\* network call.
C20_UnknownProvider ==
    (/\ Len(hist) = 1 /\ LastCall.op \in {"get_provider", "_call_provider"}
     /\ LastCall.cfg.provider \notin provider_registry)
    => /\ ~LastCall.ok
       /\ LastCall.exc = "ProviderError"
       /\ LastCall.names = LastCall.cfg.provider
       /\ LastCall.inits = 0
       /\ ~LastCall.client
       /\ LastCall.requests = 0

\* get_provider of an unknown id failed although a key was configured
C20_Witness ==
    /\ Len(hist) = 1 /\ LastCall.op = "get_provider"
    /\ LastCall.cfg.provider = "unknown"
    /\ LastCall.cfg.api_key = Some(KeyText)
    /\ LastCall.exc = "ProviderError"
    /\ LastCall.names = "unknown"
    /\ LastCall.inits = 0

(***************************************************************************)
(* core/llm/providers: the request body (_build_payload)                   *)
(***************************************************************************)
VBool(b) == [t |-> "bool", v |-> b]
\* None as a value of a mapping
VNone == [t |-> "NoneType", v |-> 0]

\* "g", "p": a model name and a prompt
ModelName == <<103>>
PromptText == <<112>>

\* keys config.parameters can hold
ParameterKeys == {"model", "messages", "stream", "max_tokens", "temperature"}

\* per key: absent, or one of two values
ParameterChoices == {"unset", "first", "second"}

\* the value of a key of config.parameters for a choice
ParameterValue(key, choice) ==
    CASE key = "model" -> VStr(IF choice = "first" THEN <<120>> ELSE EmptyStr)
      [] key = "messages" ->
           VList(IF choice = "first" THEN <<>>
                 ELSE << [role |-> "system", content |-> <<115>>] >>)
      [] key = "stream" -> VBool(choice = "first")
      [] key = "max_tokens" -> IF choice = "first" THEN VInt(1) ELSE VNone
      [] key = "temperature" -> VInt(IF choice = "first" THEN 0 ELSE 1)

\* config.parameters of a choice per key
Parameters(choices) ==
    [k \in {x \in ParameterKeys : choices[x] /= "unset"} |-> ParameterValue(k, choices[k])]

\* the token limit the Claude provider puts in the body
DefaultMaxTokens == 4096

\* the fields a provider derives from config.name, the prompt and stream
DerivedFields(kind, name, prompt, stream) ==
    [k \in {"model", "messages", "stream"}
           \cup (IF kind = "claude" THEN {"max_tokens"} ELSE {}) |->
        CASE k = "model" -> VStr(name)
          [] k = "messages" -> VList(<< [role |-> "user", content |-> prompt] >>)
          [] k = "stream" -> VBool(stream)
          [] k = "max_tokens" -> VInt(DefaultMaxTokens)]

\* {**a, **b} and a.update(b): the keys of b replace those of a
DictUpdate(a, b) ==
    [k \in DOMAIN a \cup DOMAIN b |-> IF k \in DOMAIN b THEN b[k] ELSE a[k]]

\* _build_payload of openai, claude, deepseek and local
build_payload(kind, name, parameters, prompt, stream) ==
    IF kind = "local"
    THEN DerivedFields(kind, name, prompt, stream)
    ELSE DictUpdate(DerivedFields(kind, name, prompt, stream), parameters)

\* the model configurations of the HTTP providers: [provider, name, choices]
PayloadConfigs ==
    { [provider |-> p, name |-> ModelName, choices |-> c] :
        p \in ConcreteBackends, c \in [ParameterKeys -> ParameterChoices] }

InitPayload ==
    /\ config \in PayloadConfigs
    /\ cache = NoCache
    /\ store = EmptyMap
    /\ now = 0
    /\ hist = <<>>
    /\ pc = "idle"
    /\ run = NewRun(FALSE)
    /\ prev = NoPrev
    /\ components = EmptyMap
    /\ environ = NoEnvironment

\* provider._build_payload(prompt, stream)
BuildPayload(stream) ==
    /\ hist' = << [op |-> "_build_payload", stream |-> stream, prompt |-> PromptText,
                   payload |-> build_payload(config.provider, config.name,
                                             Parameters(config.choices), PromptText, stream)] >>
    /\ UNCHANGED <<environ, components, cache, store, now, config, pc, run, prev>>

NextPayload == \E stream \in BOOLEAN : BuildPayload(stream)

SpecPayload == InitPayload /\ [][NextPayload]_vars

(***************************************************************************)
(* Properties of the request body                                          *)
(***************************************************************************)
\* C21: for every backend and every extra parameters, the reserved fields
\* of the request body (model, messages, stream, and max_tokens for claude)
\* keep the values derived from the model name, the prompt and the stream
\* argument; the extra parameters only add other keys.
C21_ReservedFieldsKept ==
    Len(hist) = 1 =>
        LET derived == DerivedFields(config.provider, config.name, LastCall.prompt, LastCall.stream)
        IN  /\ \A k \in DOMAIN derived :
                 k \in DOMAIN LastCall.payload /\ LastCall.payload[k] = derived[k]
            /\ \A k \in DOMAIN LastCall.payload \ DOMAIN derived :
                 /\ k \in DOMAIN Parameters(config.choices)
                 /\ LastCall.payload[k] = Parameters(config.choices)[k]

\* C22: every request body of the Claude backend, streaming or not and for
\* any extra parameters, has a numeric max_tokens; it is 4096 whenever the
\* extra parameters do not supply one.
C22_ClaudeMaxTokens ==
    (Len(hist) = 1 /\ config.provider = "claude") =>
        /\ "max_tokens" \in DOMAIN LastCall.payload
        /\ LastCall.payload["max_tokens"].t = "int"
        /\ config.choices["max_tokens"] = "unset" =>
             LastCall.payload["max_tokens"] = VInt(DefaultMaxTokens)

(***************************************************************************)
(* core/llm/providers: the non-streaming request (_request, generate)      *)
(***************************************************************************)
\* "r", "e", "t": a completion, an error message, a body that is not JSON
ReplyText == <<114>>
ErrorMessage == <<101>>
PlainBody == <<116>>

\* the body of a response: its text, what json() makes of it ("invalid":
\* JSONDecodeError; "object", "array", "scalar"), for an object what it
\* holds under "error" ("absent", "object", "string", "null") and under
\* error.message, and whether it holds the completion of a success
Body(text, kind, error, message, completion) ==
    [text |-> text, kind |-> kind, error |-> error, message |-> message,
     completion |-> completion]

ErrorBodies ==
    { Body(PlainBody, "invalid", "absent", None, FALSE),
      Body(<<123, 101, 125>>, "object", "object", Some(ErrorMessage), FALSE),
      Body(<<123, 125>>, "object", "object", None, FALSE),
      Body(<<123>>, "object", "absent", None, FALSE),
      Body(<<123, 115>>, "object", "string", None, FALSE),
      Body(<<123, 110>>, "object", "null", None, FALSE),
      Body(<<91, 93>>, "array", "absent", None, FALSE),
      Body(<<34, 34>>, "scalar", "absent", None, FALSE) }

SuccessBodies ==
    { Body(<<123, 114, 125>>, "object", "absent", None, TRUE),
      Body(<<123, 125>>, "object", "absent", None, FALSE) }

\* what the transport does with one request: [transport, status, body]
Replies ==
    { [transport |-> t, status |-> 0, body |-> Body(EmptyStr, "invalid", "absent", None, FALSE)] :
        t \in {"TimeoutException", "ConnectError"} }
    \cup { [transport |-> "response", status |-> s, body |-> b] :
             s \in {401, 500}, b \in ErrorBodies }
    \cup { [transport |-> "response", status |-> 200, body |-> b] : b \in SuccessBodies }

\* response.raise_for_status() raises
IsErrorStatus(status) == status < 200 \/ status > 299

\* error_details = e.response.json();
\* error_details.get("error", {}).get("message", e.response.text),
\* with "except json.JSONDecodeError: error_message = e.response.text"
decode_error(body) ==
    IF body.kind = "invalid" THEN [exc |-> "none", message |-> body.text]
    ELSE IF body.kind /= "object" THEN [exc |-> "AttributeError", message |-> EmptyStr]
    ELSE IF body.error = "absent" THEN [exc |-> "none", message |-> body.text]
    ELSE IF body.error /= "object" THEN [exc |-> "AttributeError", message |-> EmptyStr]
    ELSE IF body.message.some THEN [exc |-> "none", message |-> body.message.v]
    ELSE [exc |-> "none", message |-> body.text]

\* "except httpx.TimeoutException / httpx.RequestError: raise ProviderError"
TransportFailure(cause) == "ProviderError"

\* _request(payload): the response or the exception, with the status and
\* the message a ProviderError carries
request(reply) ==
    IF reply.transport /= "response"
    THEN [ok |-> FALSE, exc |-> TransportFailure(reply.transport), status |-> 0,
          message |-> EmptyStr]
    ELSE IF ~IsErrorStatus(reply.status)
    THEN [ok |-> TRUE, exc |-> "none", status |-> reply.status, message |-> EmptyStr]
    ELSE LET d == decode_error(reply.body) IN
         IF d.exc /= "none"
         THEN [ok |-> FALSE, exc |-> d.exc, status |-> 0, message |-> EmptyStr]
         ELSE [ok |-> FALSE, exc |-> "ProviderError", status |-> reply.status,
               message |-> d.message]

\* the text read from the body of a success: data["choices"][0]["message"]
\* ["content"], and data.get("content", [{}])[0].get("text", "") for claude
decode_completion(kind, body) ==
    IF body.completion THEN [exc |-> "none", value |-> StrValue(ReplyText)]
    ELSE IF kind = "claude" THEN [exc |-> "none", value |-> StrValue(EmptyStr)]
    ELSE [exc |-> "KeyError", value |-> NoValue]

\* "t": the response of the dummy provider
DummyResponse == <<116>>

\* provider.generate(prompt, stream=False), run to completion
generate_text(kind, reply) ==
    IF kind = "dummy"
    THEN [exc |-> "none", value |-> StrValue(DummyResponse), status |-> 0,
          message |-> EmptyStr, requests |-> 0]
    ELSE LET r == request(reply) IN
         IF ~r.ok
         THEN [exc |-> r.exc, value |-> NoValue, status |-> r.status, message |-> r.message,
               requests |-> 1]
         ELSE LET d == decode_completion(kind, reply.body) IN
              [exc |-> d.exc, value |-> d.value, status |-> r.status, message |-> EmptyStr,
               requests |-> 1]

\* whether generate of the provider is declared "async def"
IsCoroutineFunction(kind) == kind /= "local"

\* "await provider.generate(prompt, stream=stream)" in _call_provider: the
\* value it evaluates to, or the exception; a streaming generate returns
\* its generator before any request is sent
await_generate(kind, stream, reply) ==
    IF ~IsCoroutineFunction(kind)
    THEN (IF stream
          THEN [exc |-> "TypeError", value |-> NoValue, requests |-> 0]
          ELSE LET g == generate_text(kind, reply) IN
               [exc |-> IF g.exc /= "none" THEN g.exc ELSE "TypeError", value |-> NoValue,
                requests |-> g.requests])
    ELSE IF stream
    THEN [exc |-> "none", value |-> StreamValue(<<>>), requests |-> 0]
    ELSE LET g == generate_text(kind, reply) IN
         [exc |-> g.exc, value |-> g.value, requests |-> g.requests]

InitRequest ==
    /\ config \in { [provider |-> p] : p \in provider_registry }
    /\ cache = NoCache
    /\ store = EmptyMap
    /\ now = 0
    /\ hist = <<>>
    /\ pc = "idle"
    /\ run = NewRun(FALSE)
    /\ prev = NoPrev
    /\ components = EmptyMap
    /\ environ = NoEnvironment

\* provider.generate(prompt), called as the provider defines it
Generate(reply) ==
    /\ config.provider \in ConcreteBackends
    /\ LET g == generate_text(config.provider, reply) IN
       hist' = << [op |-> "generate", stream |-> FALSE, reply |-> reply, exc |-> g.exc,
                   value |-> g.value, status |-> g.status, message |-> g.message] >>
    /\ UNCHANGED <<environ, components, cache, store, now, config, pc, run, prev>>

\* "response = await provider.generate(prompt, stream=stream)"
AwaitGenerate(stream, reply) ==
    /\ LET g == await_generate(config.provider, stream, reply) IN
       hist' = << [op |-> "await generate", stream |-> stream, reply |-> reply, exc |-> g.exc,
                   value |-> g.value, status |-> 0, message |-> EmptyStr] >>
    /\ UNCHANGED <<environ, components, cache, store, now, config, pc, run, prev>>

NextRequest ==
    \/ \E reply \in Replies : Generate(reply)
    \/ \E stream \in BOOLEAN, reply \in Replies : AwaitGenerate(stream, reply)

SpecRequest == InitRequest /\ [][NextRequest]_vars

(***************************************************************************)
(* Properties of the non-streaming request                                 *)
(***************************************************************************)
\* the message the claim expects of an error body: error.message of a JSON
\* object that has one, the raw text of the body otherwise
ExpectedMessage(body) ==
    IF body.kind = "object" /\ body.error = "object" /\ body.message.some
    THEN body.message.v ELSE body.text

\* C23: for each HTTP backend's non-streaming generate, a transport timeout
\* raises ProviderError, and a non-2xx response, whatever its body, raises
\* ProviderError carrying the status code and the decoded error message,
\* or the raw body text when no structured message can be decoded.
C23_HttpErrors ==
    (Len(hist) = 1 /\ LastCall.op = "generate") =>
        /\ LastCall.reply.transport = "TimeoutException" => LastCall.exc = "ProviderError"
        /\ (LastCall.reply.transport = "response" /\ IsErrorStatus(LastCall.reply.status)) =>
             /\ LastCall.exc = "ProviderError"
             /\ LastCall.status = LastCall.reply.status
             /\ LastCall.message = ExpectedMessage(LastCall.reply.body)

\* C24: for every registered backend, the orchestrator's call of
\* provider.generate(prompt, stream) completes with a plain string when
\* stream is false and with a lazy sequence of chunks when stream is true.
C24_Uniformity ==
    (/\ Len(hist) = 1 /\ LastCall.op = "await generate"
     /\ LastCall.reply.transport = "response" /\ LastCall.reply.status = 200
     /\ LastCall.reply.body.completion)
    => /\ LastCall.exc = "none"
       /\ LastCall.value.t = IF LastCall.stream THEN "stream" ELSE "str"

(***************************************************************************)
(* Streaming: the decoders of the providers and the consumer of a stream   *)
(***************************************************************************)
\* the number of lines one stream carries
MaxLines == 3

\* "a", "b": the text fragments content frames carry
Fragments == { <<97>>, <<98>> }

\* one line of the response: whether it starts with "data:", what follows
\* the prefix ("empty", "done": [DONE], "invalid": not JSON, "json"), the
\* shape of the JSON value, and the text it holds where the decoder looks
Frame(prefix, payload, json, content) ==
    [prefix |-> prefix, payload |-> payload, json |-> json, content |-> content]

Contents == { None, Some(EmptyStr) } \cup { Some(f) : f \in Fragments }

\* the lines of an OpenAI-style stream (openai, deepseek, local): "choices"
\* is absent, empty, or holds one choice without a delta or with a delta
ChoicesFrames ==
    { Frame(FALSE, "empty", "none", None),
      Frame(TRUE, "empty", "none", None),
      Frame(TRUE, "done", "none", None),
      Frame(TRUE, "invalid", "none", None) }
    \cup { Frame(TRUE, "json", j, None) :
             j \in {"array", "scalar", "no choices", "empty choices", "no delta"} }
    \cup { Frame(TRUE, "json", "delta", c) : c \in Contents }

\* the lines of an Anthropic stream: "type" is absent, message_start,
\* message_stop, or content_block_delta without a delta, with a delta of
\* another type or with a text_delta
EventFrames ==
    { Frame(FALSE, "empty", "none", None),
      Frame(TRUE, "empty", "none", None),
      Frame(TRUE, "done", "none", None),
      Frame(TRUE, "invalid", "none", None) }
    \cup { Frame(TRUE, "json", j, None) :
             j \in {"array", "scalar", "no type", "message_start", "message_stop",
                    "no delta", "input_json_delta"} }
    \cup { Frame(TRUE, "json", "text_delta", c) : c \in Contents }

Frames(kind) == IF kind = "claude" THEN EventFrames ELSE ChoicesFrames

\* what reading the next line of the response does instead of giving a line
ReadFailures == {"ReadTimeout", "ReadError"}

\* the exceptions the decoder's "except" clause turns into "continue"
CaughtInDecoder(kind) ==
    IF kind = "local" THEN {"JSONDecodeError"} ELSE {"JSONDecodeError", "IndexError"}

Skip == [act |-> "skip", content |-> EmptyStr, exc |-> "none"]
Yield(content) == [act |-> "yield", content |-> content, exc |-> "none"]
Break == [act |-> "break", content |-> EmptyStr, exc |-> "none"]
Raise(kind, exc) ==
    IF exc \in CaughtInDecoder(kind) THEN Skip
    ELSE [act |-> "raise", content |-> EmptyStr, exc |-> exc]

\* "if content: yield content"
YieldIfTruthy(content) ==
    IF content.some /\ content.v /= EmptyStr THEN Yield(content.v) ELSE Skip

\* the body of the "try" of the OpenAI-style decoders:
\* chunk = json.loads(chunk_str);
\* delta = chunk.get("choices", [{}])[0].get("delta", {});
\* content = delta.get("content"); if content: yield content
decode_choices(kind, frame) ==
    IF frame.payload = "invalid" THEN Raise(kind, "JSONDecodeError")
    ELSE IF frame.json \in {"array", "scalar"} THEN Raise(kind, "AttributeError")
    ELSE IF frame.json = "empty choices" THEN Raise(kind, "IndexError")
    ELSE IF frame.json \in {"no choices", "no delta"} THEN Skip
    ELSE YieldIfTruthy(frame.content)

\* the body of the "try" of the Anthropic decoder: chunk.get("type") is
\* content_block_delta (a text_delta yields its text), message_stop, or other
decode_event(kind, frame) ==
    IF frame.payload \in {"invalid", "done"} THEN Raise(kind, "JSONDecodeError")
    ELSE IF frame.json \in {"array", "scalar"} THEN Raise(kind, "AttributeError")
    ELSE IF frame.json = "message_stop" THEN Break
    ELSE IF frame.json = "text_delta" THEN YieldIfTruthy(frame.content)
    ELSE Skip

\* one iteration of the loop over the lines of the response
process_line(kind, frame) ==
    IF ~frame.prefix THEN Skip
    ELSE IF kind = "claude"
    THEN (IF frame.payload = "empty" THEN Skip ELSE decode_event(kind, frame))
    ELSE IF frame.payload = "done" THEN Break
    ELSE IF frame.payload = "empty" THEN Skip
    ELSE decode_choices(kind, frame)

\* where a step of the loop leaves the generator: suspended at its yield,
\* still reading, finished after "break", or ended by the exception
gen_after_reading_on(act) ==
    CASE act = "yield" -> "suspended"
      [] act = "skip" -> "reading"
      [] act = "break" -> "reading"
      [] OTHER -> "raised"

gen_after(act) ==
    CASE act = "yield" -> "suspended"
      [] act = "skip" -> "reading"
      [] act = "break" -> "finished"
      [] OTHER -> "raised"

\* how a stream is obtained: from generate(prompt, stream=True), or from the
\* decoder of the local provider called with a response
StreamConfigs ==
    { [provider |-> p, entry |-> "generate"] : p \in ConcreteBackends }
    \cup { [provider |-> "local", entry |-> "_process_stream_response"] }

\* what the decoder iterates: the response the "async with" block gives, the
\* response the caller gives, or for generate of the local provider the
\* object self._client.stream(...) returns, a context manager not entered
HandedToDecoder(cfg) ==
    IF cfg.provider = "local" /\ cfg.entry = "generate" THEN "context manager"
    ELSE "response"

\* the state of one stream: the generator (created, reading, suspended,
\* finished, raised), the connection (none, open, closed), the requests
\* sent, the fragments yielded, the exception the consumer got, whether the
\* consumer still reads, and of the lines read so far: their number, the
\* fragments of the content frames, whether a terminal frame, a frame that
\* is not well formed, a failed read were among them
NewStream(cfg) ==
    [gen |-> "created",
     conn |-> IF cfg.entry = "generate" THEN "none" ELSE "open",
     requests |-> IF cfg.entry = "generate" THEN 0 ELSE 1,
     out |-> <<>>, exc |-> "none", consumer |-> "reading",
     lines |-> 0, sent |-> <<>>, terminal |-> FALSE, malformed |-> FALSE,
     failed |-> FALSE, stopped_by |-> "none"]

InitStream ==
    /\ config \in StreamConfigs
    /\ run = NewStream(config)
    /\ cache = NoCache
    /\ store = EmptyMap
    /\ now = 0
    /\ hist = <<>>
    /\ pc = "idle"
    /\ prev = NoPrev
    /\ components = EmptyMap
    /\ environ = NoEnvironment

\* a frame that carries a fragment, and the frame that ends the stream
IsContent(kind, frame) ==
    /\ frame.prefix /\ frame.payload = "json"
    /\ frame.json = (IF kind = "claude" THEN "text_delta" ELSE "delta")
    /\ frame.content.some /\ frame.content.v /= EmptyStr

IsTerminal(kind, frame) ==
    /\ frame.prefix
    /\ IF kind = "claude" THEN frame.payload = "json" /\ frame.json = "message_stop"
       ELSE frame.payload = "done"

\* a frame that is not well formed: not JSON, JSON that is not an object, an
\* object without choices, with an empty choices list or without a delta
IsMalformed(kind, frame) ==
    /\ frame.prefix
    /\ \/ frame.payload = "invalid"
       \/ kind = "claude" /\ frame.payload = "done"
       \/ frame.payload = "json"
          /\ frame.json \in {"array", "scalar", "no choices", "empty choices", "no delta",
                             "no type"}

\* a frame the decoder has nothing to do with: a line without the prefix, an
\* empty payload, a delta without text, an event of another type
IsUnrecognized(kind, frame) ==
    ~IsContent(kind, frame) /\ ~IsTerminal(kind, frame) /\ ~IsMalformed(kind, frame)

\* the consumer asks for the next fragment: the generator starts or resumes.
\* Started, the generator of generate sends the request and enters the
\* "async with" block; the generator of the local provider calls
\* iter_lines() and, in its "finally", close() on the context manager
Anext ==
    /\ run.consumer = "reading"
    /\ run.gen \in {"created", "suspended"}
    /\ IF run.gen = "created" /\ HandedToDecoder(config) = "context manager"
       THEN run' = [run EXCEPT !.gen = "raised", !.exc = "AttributeError",
                               !.consumer = "stopped", !.stopped_by = "exception"]
       ELSE IF run.gen = "created" /\ config.entry = "generate"
       THEN run' = [run EXCEPT !.gen = "reading", !.conn = "open", !.requests = @ + 1]
       ELSE run' = [run EXCEPT !.gen = "reading"]
    /\ hist' = <<>>
    /\ UNCHANGED <<environ, components, cache, store, now, config, pc, prev>>

\* the generator reads one line and runs one iteration of the loop on it;
\* "break" and an exception run the "finally" and leave the "async with"
ReadLine(frame) ==
    /\ run.gen = "reading"
    /\ run.lines < MaxLines
    /\ LET kind == config.provider
           res == process_line(kind, frame)
           gen == gen_after(res.act)
       IN /\ run' = [run EXCEPT
                  !.gen = gen,
                  !.conn = IF gen \in {"finished", "raised"} THEN "closed" ELSE @,
                  !.out = IF res.act = "yield" THEN Append(@, res.content) ELSE @,
                  !.exc = res.exc,
                  !.consumer = IF gen \in {"finished", "raised"} THEN "stopped" ELSE @,
                  !.stopped_by = IF gen = "finished" THEN "exhaustion"
                                 ELSE IF gen = "raised" THEN "exception" ELSE @,
                  !.lines = @ + 1,
                  !.sent = IF IsContent(kind, frame) THEN Append(@, frame.content.v) ELSE @,
                  !.terminal = @ \/ IsTerminal(kind, frame),
                  !.malformed = @ \/ IsMalformed(kind, frame)]
          /\ hist' = << [frame |-> frame, act |-> res.act, exc |-> res.exc] >>
    /\ UNCHANGED <<environ, components, cache, store, now, config, pc, prev>>

\* the response has no more lines: the loop ends, the "finally" closes
EndOfLines ==
    /\ run.gen = "reading"
    /\ run' = [run EXCEPT !.gen = "finished", !.conn = "closed", !.consumer = "stopped",
                          !.stopped_by = "exhaustion"]
    /\ hist' = <<>>
    /\ UNCHANGED <<environ, components, cache, store, now, config, pc, prev>>

\* reading the next line fails in the transport: the exception passes the
\* "finally" and the "async with", and "except httpx.HTTPStatusError" of
\* stream_generator does not catch it
ReadFails(failure) ==
    /\ run.gen = "reading"
    /\ run' = [run EXCEPT !.gen = "raised", !.conn = "closed", !.exc = failure,
                          !.consumer = "stopped", !.stopped_by = "exception",
                          !.failed = TRUE]
    /\ hist' = <<>>
    /\ UNCHANGED <<environ, components, cache, store, now, config, pc, prev>>

\* the consumer leaves its loop after a fragment: the generator stays
\* suspended at its yield
ConsumerBreak ==
    /\ run.consumer = "reading"
    /\ run.gen = "suspended"
    /\ run' = [run EXCEPT !.consumer = "stopped", !.stopped_by = "break"]
    /\ hist' = <<>>
    /\ UNCHANGED <<environ, components, cache, store, now, config, pc, prev>>

\* the consumer closes the generator (aclose(), close()): GeneratorExit at
\* the yield runs the "finally" and leaves the "async with"
ConsumerClose ==
    /\ run.consumer = "reading"
    /\ run.gen = "suspended"
    /\ run' = [run EXCEPT !.gen = "finished", !.conn = "closed", !.consumer = "stopped",
                          !.stopped_by = "close"]
    /\ hist' = <<>>
    /\ UNCHANGED <<environ, components, cache, store, now, config, pc, prev>>

\* the consumer's task is cancelled while the generator awaits a line:
\* CancelledError runs the "finally" and leaves the "async with"
ConsumerCancel ==
    /\ run.consumer = "reading"
    /\ run.gen = "reading"
    /\ config.entry = "generate"
    /\ run' = [run EXCEPT !.gen = "raised", !.conn = "closed", !.exc = "CancelledError",
                          !.consumer = "stopped", !.stopped_by = "cancellation"]
    /\ hist' = <<>>
    /\ UNCHANGED <<environ, components, cache, store, now, config, pc, prev>>

\* the runtime finalizes a generator its consumer has left suspended, when
\* and if it collects it
Finalize ==
    /\ run.consumer = "stopped"
    /\ run.gen = "suspended"
    /\ run' = [run EXCEPT !.gen = "finished", !.conn = "closed"]
    /\ hist' = <<>>
    /\ UNCHANGED <<environ, components, cache, store, now, config, pc, prev>>

NextStream ==
    \/ Anext
    \/ \E frame \in Frames(config.provider) : ReadLine(frame)
    \/ EndOfLines
    \/ \E failure \in ReadFailures : ReadFails(failure)
    \/ ConsumerBreak
    \/ ConsumerClose
    \/ ConsumerCancel
    \/ Finalize

SpecStream == InitStream /\ [][NextStream]_vars

(***************************************************************************)
(* Properties of the streams                                               *)
(***************************************************************************)
\* C25: for each backend, when the lines read so far are well formed (no
\* malformed frame, no failed read), the stream has yielded exactly the
\* fragments of the content frames read, in wire order, without an
\* exception, and once the terminal frame is read the sequence has ended.
C25_DecodeExactness ==
    (~run.malformed /\ ~run.failed /\ run.stopped_by /= "cancellation") =>
        /\ run.out = run.sent
        /\ run.exc = "none"
        /\ run.terminal => (run.gen = "finished" /\ run.stopped_by = "exhaustion")

\* C26: for each backend's decoder, a line that is unrecognized or malformed
\* is skipped: nothing is yielded, nothing is raised and the decoder goes on
\* to read the next line.
C26_MalformedSkipped ==
    (/\ Len(hist) = 1
     /\ \/ IsMalformed(config.provider, LastCall.frame)
        \/ IsUnrecognized(config.provider, LastCall.frame))
    => /\ LastCall.act = "skip"
       /\ run.gen = "reading"
       /\ run.exc = "none"

\* C27: once a decoder has read its terminal frame the generator is
\* finished: the terminal frame is the last line it read, so no fragment is
\* yielded after it, and the consumer's loop has ended.
C27_TerminalEnds ==
    run.terminal =>
        /\ run.gen = "finished"
        /\ run.consumer = "stopped"
        /\ Len(hist) = 1 /\ IsTerminal(config.provider, LastCall.frame)

C27_Witness ==
    /\ run.terminal
    /\ run.out = << <<97>>, <<98>> >>
    /\ run.gen = "finished"

\* C28: whenever the consumer of a stream has stopped (exhaustion, terminal
\* frame, exception, break, close, cancellation) the connection of the call
\* is not open.
C28_ConnectionReleased ==
    run.consumer = "stopped" => run.conn /= "open"

\* C29: a read that fails while the stream is consumed reaches the consumer
\* as ProviderError, with one request sent and the fragments yielded before
\* it kept as they were.
C29_StreamFailure ==
    run.failed =>
        /\ run.exc = "ProviderError"
        /\ run.requests = 1
        /\ run.out = run.sent

(***************************************************************************)
(* The cache and the state of its directory                                *)
(***************************************************************************)
\* the ttl_sec a cache is constructed with
TtlArguments == {-1, 0, 1}

\* what is at cache_dir when the cache is constructed: nothing, where a
\* directory can or cannot be created; a file; a directory that can or
\* cannot be written to
DirectoryStates == {"absent", "uncreatable", "file", "writable", "read-only"}

\* self.cache_dir.mkdir(parents=True, exist_ok=True) raises no OSError
mkdir(dir) == dir \in {"absent", "writable", "read-only"}

\* files can be created, replaced and removed in the directory
CanWrite(dir) == dir \in {"absent", "writable"}

\* Cache.get in that directory: an unlink that fails raises OSError, which
\* the "except" of get turns into None
Cache_get_in(dir, c, st, t, content) ==
    LET got == Cache_get(c, st, t, content) IN
    IF CanWrite(dir) THEN got ELSE [value |-> got.value, store |-> st]

\* Cache.set in that directory: an open(cache_file, "w") that fails raises
\* OSError, which the "except" of set logs
Cache_set_in(dir, c, st, t, content, value) ==
    IF CanWrite(dir) THEN Cache_set(c, st, t, content, value) ELSE st

InitCacheDir ==
    /\ config \in [ttl_sec : TtlArguments, dir : DirectoryStates]
    /\ cache = Cache_init(config.ttl_sec, mkdir(config.dir))
    /\ store \in IF config.dir \in {"writable", "read-only"} THEN Directories ELSE {EmptyMap}
    /\ now = 0
    /\ hist = <<>>
    /\ pc = "idle"
    /\ run = NewRun(FALSE)
    /\ prev = NoPrev
    /\ components = EmptyMap
    /\ environ = NoEnvironment

\* cache.set(content, value)
SetIn(content, value) ==
    /\ store' = Cache_set_in(config.dir, cache, store, now, content, value)
    /\ hist' = Remember(hist, [op |-> "set", content |-> content, value |-> Some(value),
                               stored |-> store' /= store, at |-> now])
    /\ UNCHANGED <<environ, components, cache, now, config, pc, run, prev>>

\* cache.get(content)
GetIn(content) ==
    /\ LET got == Cache_get_in(config.dir, cache, store, now, content) IN
       /\ store' = got.store
       /\ hist' = Remember(hist, [op |-> "get", content |-> content, value |-> got.value,
                                  stored |-> FALSE, at |-> now])
    /\ UNCHANGED <<environ, components, cache, now, config, pc, run, prev>>

NextCacheDir ==
    \/ \E content \in CacheContents, value \in CacheValues : SetIn(content, value)
    \/ \E content \in CacheContents : GetIn(content)
    \/ Tick

SpecCacheDir == InitCacheDir /\ [][NextCacheDir]_vars

\* C30: a cache constructed with a non-positive ttl_sec, or on a directory
\* that cannot be created or cannot be used, reports is_enabled() = false,
\* and every get of it returns nothing and every set of it stores nothing.
C30_DegradesToDisabled ==
    (config.ttl_sec <= 0 \/ ~mkdir(config.dir) \/ ~CanWrite(config.dir)) =>
        /\ ~is_enabled(cache)
        /\ \A i \in 1..Len(hist) :
             /\ hist[i].op = "get" => hist[i].value = None
             /\ hist[i].op = "set" => ~hist[i].stored

(***************************************************************************)
(* The record file of one key, read and written by concurrent processes    *)
(***************************************************************************)
\* the processes that use the cache directory at the same time
Procs == {1, 2}

\* "a", "bb": the values the sets store
SetValues == { <<97>>, <<98, 98>> }

\* the times at which the calls are made
CallTimes == {0, 2}

\* the file of a key: absent, or its bytes
NoFile == [exists |-> FALSE, bytes |-> <<>>]
File(bytes) == [exists |-> TRUE, bytes |-> bytes]

\* json.dump({"timestamp": t, "value": v}, f): the bytes of the record,
\* written as {, the digit of t, the quoted value, }
dump_bytes(t, value) == <<123, 48 + t, 34>> \o value \o <<34, 125>>

IsDigit(b) == b >= 48 /\ b <= 57
IsLetters(s) == \A i \in 1..Len(s) : s[i] >= 97 /\ s[i] <= 122

\* the quoted value at the end of the members of an object
IsQuoted(s) == Len(s) >= 2 /\ s[1] = 34 /\ s[Len(s)] = 34 /\ IsLetters(SubSeq(s, 2, Len(s) - 1))

\* json.load(f): "invalid" (JSONDecodeError), the arrays and scalars of the
\* model, or an object with the members it holds
load_bytes(bytes) ==
    LET n == Len(bytes)
        members == SubSeq(bytes, 2, n - 1)
        has_ts == members /= <<>> /\ IsDigit(members[1])
        rest == IF has_ts THEN Tail(members) ELSE members
    IN IF bytes = <<91, 93>> THEN [kind |-> "array", timestamp |-> None, value |-> None]
       ELSE IF n = 1 /\ IsDigit(bytes[1])
       THEN [kind |-> "scalar", timestamp |-> None, value |-> None]
       ELSE IF n >= 2 /\ bytes[1] = 123 /\ bytes[n] = 125 /\ (rest = <<>> \/ IsQuoted(rest))
       THEN [kind |-> "object",
             timestamp |-> IF has_ts THEN Some(<<members[1] - 48>>) ELSE None,
             value |-> IF rest = <<>> THEN None ELSE Some(SubSeq(rest, 2, Len(rest) - 1))]
       ELSE [kind |-> "invalid", timestamp |-> None, value |-> None]

\* a write of data at offset 0 of a file that holds old
write_at_start(old, data) ==
    IF Len(old) <= Len(data) THEN data ELSE data \o SubSeq(old, Len(data) + 1, Len(old))

\* what a process is asked to do
Jobs ==
    { [op |-> "none", value |-> EmptyStr], [op |-> "get", value |-> EmptyStr] }
    \cup { [op |-> "set", value |-> v] : v \in SetValues }

NewProc(job) ==
    [op |-> job.op, value |-> job.value,
     pc |-> IF job.op = "none" THEN "done" ELSE "start",
     result |-> None, exc |-> "none", wrote |-> 0, unlinked |-> FALSE]

\* the files another process or a crash can have left: none, an empty or a
\* partly written file, "[]", "1", "{}", a record without timestamp, without
\* value, and a whole record written at time 0
InitialFiles ==
    { NoFile, File(<<>>), File(<<123, 48>>), File(<<91, 93>>), File(<<49>>),
      File(<<123, 125>>), File(<<123, 34, 99, 34, 125>>), File(<<123, 48, 125>>),
      File(dump_bytes(0, <<99>>)) }

\* run: the processes; store: the file of the key; pc: whether another
\* process may still remove the file; hist: the order of the writes
InitFiles ==
    /\ config = [ttl_sec |-> 1]
    /\ cache = Cache_init(config.ttl_sec, TRUE)
    /\ store \in InitialFiles
    /\ now \in CallTimes
    /\ run \in { [p \in Procs |-> NewProc(IF p = 1 THEN j1 ELSE j2)] : j1 \in Jobs, j2 \in Jobs }
    /\ hist = <<>>
    /\ pc = "may remove"
    /\ prev = NoPrev
    /\ components = EmptyMap
    /\ environ = NoEnvironment

Finish(p, result, exc) ==
    run' = [run EXCEPT ![p].pc = "done", ![p].result = result, ![p].exc = exc]

\* Cache.set, open(cache_file, "w"): the file is created or truncated
SetOpen(p) ==
    /\ run[p].op = "set" /\ run[p].pc = "start"
    /\ is_enabled(cache)
    /\ store' = File(<<>>)
    /\ run' = [run EXCEPT ![p].pc = "opened"]
    /\ UNCHANGED <<environ, components, cache, now, hist, config, pc, prev>>

\* Cache.set, json.dump and the end of "with": the record is written from
\* the start of the file, which may have been removed or written meanwhile
SetWrite(p) ==
    /\ run[p].op = "set" /\ run[p].pc = "opened"
    /\ store' = IF store.exists
                THEN File(write_at_start(store.bytes, dump_bytes(now, run[p].value)))
                ELSE store
    /\ run' = [run EXCEPT ![p].pc = "done", ![p].wrote = Len(hist) + 1]
    /\ hist' = Append(hist, p)
    /\ UNCHANGED <<environ, components, cache, now, config, pc, prev>>

\* Cache.get, "if not cache_file.exists(): return None"
GetExists(p) ==
    /\ run[p].op = "get" /\ run[p].pc = "start"
    /\ is_enabled(cache)
    /\ IF store.exists THEN run' = [run EXCEPT ![p].pc = "checked"]
       ELSE Finish(p, None, "none")
    /\ UNCHANGED <<environ, components, cache, store, now, hist, config, pc, prev>>

\* Cache.get, open, json.load, data.get("timestamp", 0) and the test of the
\* age; FileNotFoundError and JSONDecodeError are caught, AttributeError of
\* data.get on a value that is not an object is not
GetRead(p) ==
    /\ run[p].op = "get" /\ run[p].pc = "checked"
    /\ LET data == load_bytes(store.bytes)
           timestamp == IF data.timestamp.some THEN data.timestamp.v[1] ELSE 0
       IN IF ~store.exists \/ data.kind = "invalid" THEN Finish(p, None, "none")
          ELSE IF data.kind /= "object" THEN Finish(p, None, "AttributeError")
          ELSE IF Expired(now - timestamp, cache.ttl_sec)
          THEN run' = [run EXCEPT ![p].pc = "expired"]
          ELSE Finish(p, data.value, "none")
    /\ UNCHANGED <<environ, components, cache, store, now, hist, config, pc, prev>>

\* Cache.get, cache_file.unlink() of the record found expired, and
\* "return None"; FileNotFoundError is caught
GetUnlink(p) ==
    /\ run[p].op = "get" /\ run[p].pc = "expired"
    /\ store' = NoFile
    /\ run' = [run EXCEPT ![p].pc = "done", ![p].result = None,
                          ![p].unlinked = store.exists]
    /\ UNCHANGED <<environ, components, cache, now, hist, config, pc, prev>>

\* another process removes the file
RemoveFile ==
    /\ pc = "may remove"
    /\ store.exists
    /\ \E p \in Procs : run[p].op = "get" /\ run[p].pc \in {"checked", "expired"}
    /\ store' = NoFile
    /\ pc' = "removed"
    /\ UNCHANGED <<environ, components, cache, now, hist, config, run, prev>>

NextFiles ==
    \/ \E p \in Procs : SetOpen(p)
    \/ \E p \in Procs : SetWrite(p)
    \/ \E p \in Procs : GetExists(p)
    \/ \E p \in Procs : GetRead(p)
    \/ \E p \in Procs : GetUnlink(p)
    \/ RemoveFile

SpecFiles == InitFiles /\ [][NextFiles]_vars

\* what a get made now, on its own, returns
ReadNow ==
    LET data == load_bytes(store.bytes)
        timestamp == IF data.timestamp.some THEN data.timestamp.v[1] ELSE 0
    IN IF ~store.exists \/ data.kind /= "object" \/ Expired(now - timestamp, cache.ttl_sec)
       THEN None ELSE data.value

AllDone == \A p \in Procs : run[p].pc = "done"
Setters == { p \in Procs : run[p].op = "set" }

\* C31: once every set of the key has completed, the file holds one whole
\* record and a get returns the value of the set that wrote last.
C31_LastWriteWins ==
    (AllDone /\ Setters /= {} /\ pc = "may remove"
     /\ \A p \in Procs : run[p].op /= "get")
    => /\ store.exists
       /\ ReadNow = Some(run[hist[Len(hist)]].value)

\* C36: when a get that found the record expired and a set of the same key
\* by another run have both completed, the record the set wrote exists and
\* a following get returns its value.
C36_FreshRecordKept ==
    (/\ AllDone /\ pc = "may remove"
     /\ \E p \in Procs : run[p].op = "get"
     /\ \E p \in Procs : run[p].op = "set")
    => \A p \in Setters : store.exists /\ ReadNow = Some(run[p].value)

\* C38: Cache.get raises nothing, whatever the file of the key holds and
\* whenever another process writes or removes it.
C38_GetNeverRaises ==
    \A p \in Procs : run[p].op = "get" => run[p].exc = "none"

(***************************************************************************)
(* Properties of the writes to the cache                                   *)
(***************************************************************************)
\* the step wrote a record: a file that was not there, or other contents
RecordWritten ==
    \E k \in DOMAIN store' : k \notin DOMAIN store \/ store'[k] /= store[k]

\* C32: a step of generate writes a cache record only in the raw-message
\* phase of a non-streaming run, after a lookup that was not a hit and one
\* backend call that returned a string, and the record holds that string;
\* a run whose backend call failed and a run served from the cache write
\* no record.
C32_SoleWriter ==
    [][RecordWritten =>
         /\ pc = "raw" /\ ~run.stream
         /\ run'.error = NoError
         /\ run'.raw.t = "str"
         /\ Calls(run', "cache.get") = 1
         /\ Calls(run', "provider.generate") = 1
         /\ Calls(run', "cache.set") = 1
         /\ run'.content.some
         /\ ~IsHit(Cache_get(cache, store, now, run'.content.v).value)
         /\ RecordOf(store', run'.content.v).value = Some(run'.raw.v)]_vars

\* a non-streaming run that found an expired record, called the backend and
\* stored its answer in place of it
C32_Witness ==
    /\ RawPhaseOver /\ ~run.stream
    /\ run.before.found
    /\ run.raw_at - run.before.timestamp > cache.ttl_sec
    /\ Calls(run, "cache.set") = 1
    /\ Calls(run, "provider.generate") = 1
    /\ run.raw.t = "str"
    /\ RecordOf(store, run.content.v).value = Some(run.raw.v)
    /\ RecordOf(store, run.content.v).timestamp = run.raw_at

(***************************************************************************)
(* The prompt built from a Context                                         *)
(***************************************************************************)
\* the choices a Context is made of: the readme (absent, "", a text), the
\* recent commits, the issues (with and without a title), the files
PromptChoices ==
    [readme : {"none", "empty", "text"},
     recent_commits : {"none", "one", "two"},
     issues : {"none", "titled", "untitled", "both"},
     files : {"none", "a", "ab", "ba"}]

\* "d": a second commit message
CommitOther == <<100>>

ContextOf(choice) ==
    [files |-> CASE choice.files = "none" -> <<>>
                 [] choice.files = "a" -> <<FileA>>
                 [] choice.files = "ab" -> <<FileA, FileB>>
                 [] OTHER -> <<FileB, FileA>>,
     readme |-> CASE choice.readme = "none" -> None
                  [] choice.readme = "empty" -> Some(EmptyStr)
                  [] OTHER -> Some(ReadmeText),
     recent_commits |-> CASE choice.recent_commits = "none" -> <<>>
                          [] choice.recent_commits = "one" -> <<CommitText>>
                          [] OTHER -> <<CommitOther, CommitText>>,
     issues |-> CASE choice.issues = "none" -> <<>>
                  [] choice.issues = "titled" -> <<IssueRecord>>
                  [] choice.issues = "untitled" -> << [number |-> <<49>>] >>
                  [] OTHER -> << [number |-> <<49>>], IssueRecord >>,
     meta |-> EmptyMap]

\* "en", "zh": config.output.language
Languages == {"en", "zh"}

InitPrompt ==
    /\ config \in [context : PromptChoices, language : Languages]
    /\ cache = NoCache
    /\ store = EmptyMap
    /\ now = 0
    /\ hist = <<>>
    /\ pc = "idle"
    /\ run = NewRun(FALSE)
    /\ prev = NoPrev
    /\ components = EmptyMap
    /\ environ = NoEnvironment

\* prompt = self._create_prompt(context); the last two prompts are kept
CreatePrompt ==
    /\ Len(hist) < 2
    /\ hist' = Append(hist, create_prompt(ContextOf(config.context), config.language))
    /\ UNCHANGED <<environ, components, cache, store, now, config, pc, run, prev>>

NextPrompt == CreatePrompt

SpecPrompt == InitPrompt /\ [][NextPrompt]_vars

\* the place of a section of the summary in the prompt
SectionRank(section) ==
    CASE section = "README Summary" -> 1
      [] section = "Recent Commits" -> 2
      [] section = "Related Issues" -> 3
      [] OTHER -> 0

SectionsOf(prompt) ==
    { prompt.context_summary[i].section : i \in 1..Len(prompt.context_summary) }

\* C33: in every prompt the summary sections stand in the order README,
\* recent commits, related issues, each once; a section is there exactly
\* when the Context has data for it; the commits and issue titles keep
\* their order; the diffs are the files in Context order; and two prompts
\* built from the same Context and configuration are identical.
C33_PromptOrder ==
    \A n \in 1..Len(hist) :
        LET prompt == hist[n]
            summary == prompt.context_summary
            ctx == ContextOf(config.context)
        IN /\ \A i, j \in 1..Len(summary) :
                i < j => /\ SectionRank(summary[i].section) > 0
                         /\ SectionRank(summary[i].section) < SectionRank(summary[j].section)
           /\ ("README Summary" \in SectionsOf(prompt))
                <=> (ctx.readme.some /\ ctx.readme.v /= EmptyStr)
           /\ ("Recent Commits" \in SectionsOf(prompt)) <=> (ctx.recent_commits /= <<>>)
           /\ ("Related Issues" \in SectionsOf(prompt)) <=> (ctx.issues /= <<>>)
           /\ \A i \in 1..Len(summary) :
                /\ summary[i].section = "Recent Commits" => summary[i].body = ctx.recent_commits
                /\ summary[i].section = "Related Issues" => Len(summary[i].body) = Len(ctx.issues)
           /\ prompt.diffs = ctx.files
           /\ prompt.language = config.language
           /\ hist[1] = prompt

\* two prompts built from a Context with a readme, two commits, two issues
\* and two files, all three sections present
C33_Witness ==
    /\ Len(hist) = 2
    /\ Len(hist[2].context_summary) = 3
    /\ Len(hist[2].diffs) = 2
    /\ hist[2].context_summary[2].body = <<CommitOther, CommitText>>
    /\ hist[2].context_summary[3].body = << <<78, 47, 65>>, IssueRecord.title >>

(***************************************************************************)
(* The diff and issue producers called on their own                        *)
(***************************************************************************)
\* exit codes of "git diff --cached"
ReturnCodes == {0, 1, 2, 128, 129, 255}

\* every run of the command: whether it could be launched, its exit code
\* and its output
GitDiffCalls ==
    [launch : {"ok", "FileNotFoundError"}, returncode : ReturnCodes,
     stdout : {EmptyStr, DiffA, DiffB}]

\* every lookup of the issue: whether the directory is a repository, whether
\* the branch name holds a number, and what the request to the remote gives
IssueCalls ==
    [repo : BOOLEAN, number : BOOLEAN,
     http : {"ok", "404", "401", "403", "500", "ConnectError", "TimeoutException"}]

\* the requests IssueCollector.collect sends: none when it returns before
\* _get_github_issue, one self.client.get otherwise
IssueRequests(p) == IF ~p.repo \/ ~p.number THEN 0 ELSE 1

InitCollectors ==
    /\ config = [collector |-> "none"]
    /\ cache = NoCache
    /\ store = EmptyMap
    /\ now = 0
    /\ hist = <<>>
    /\ pc = "idle"
    /\ run = NewRun(FALSE)
    /\ prev = NoPrev
    /\ components = EmptyMap
    /\ environ = NoEnvironment

\* DiffCollector().collect(); the last two calls are kept
CollectDiff(p) ==
    /\ hist' = Remember(hist, [op |-> "diff", input |-> p,
                               outcome |-> DiffCollector_collect(p), requests |-> 0])
    /\ UNCHANGED <<environ, components, cache, store, now, config, pc, run, prev>>

\* IssueCollector(repo=...).collect()
CollectIssue(p) ==
    /\ hist' = Remember(hist, [op |-> "issue", input |-> p,
                               outcome |-> IssueCollector_collect(p),
                               requests |-> IssueRequests(p)])
    /\ UNCHANGED <<environ, components, cache, store, now, config, pc, run, prev>>

NextCollectors ==
    \/ \E p \in GitDiffCalls : CollectDiff(p)
    \/ \E p \in IssueCalls : CollectIssue(p)

SpecCollectors == InitCollectors /\ [][NextCollectors]_vars

C35_IssueLookup ==
    (Len(hist) >= 1 /\ LastCall.op = "issue") =>
        LET p == LastCall.input IN
        /\ (~p.repo \/ ~p.number) =>
             /\ LastCall.outcome.ok /\ LastCall.outcome.data = EmptyMap
             /\ LastCall.requests = 0
        /\ (p.repo /\ p.number /\ p.http = "404") =>
             /\ LastCall.outcome.ok /\ LastCall.outcome.data = EmptyMap
        /\ (p.repo /\ p.number /\ p.http \notin {"ok", "404"}) =>
             /\ ~LastCall.outcome.ok /\ LastCall.outcome.exc = "CollectorError"
             /\ LastCall.requests = 1

\* the remote answered 404 and the producer returned the empty mapping
C35_Witness ==
    /\ Len(hist) >= 1 /\ LastCall.op = "issue"
    /\ LastCall.input.repo /\ LastCall.input.number /\ LastCall.input.http = "404"
    /\ LastCall.outcome.ok /\ LastCall.outcome.data = EmptyMap
    /\ LastCall.requests = 1

(***************************************************************************)
(* The cache key content of two Contexts                                   *)
(***************************************************************************)
\* diff texts: "a", "b", and "a\n---\nb", which holds the separator
KeyDiffs == { <<97>>, <<98>>, <<97>> \o DiffSeparator \o <<98>> }

\* the files of a Context: none, one or two, with those diffs
KeyFiles ==
    { <<>> }
    \cup { << FileChange(<<97>>, d) >> : d \in KeyDiffs }
    \cup { << FileChange(<<97>>, d), FileChange(<<98>>, e) >> : d \in KeyDiffs, e \in KeyDiffs }

InitKey ==
    /\ config \in [first : KeyFiles \ {<<>>}, second : KeyFiles \ {<<>>}]
    /\ cache = NoCache
    /\ store = EmptyMap
    /\ now = 0
    /\ hist = <<>>
    /\ pc = "idle"
    /\ run = NewRun(FALSE)
    /\ prev = NoPrev
    /\ components = EmptyMap
    /\ environ = NoEnvironment

\* diff_content = "\n---\n".join(sorted(f.diff for f in context.files)) and
\* the key the cache derives from it, for the next of the two Contexts
ComputeKey ==
    /\ Len(hist) < 2
    /\ LET files == IF hist = <<>> THEN config.first ELSE config.second IN
       hist' = Append(hist, [content |-> diff_content(files),
                             key |-> get_key(diff_content(files))])
    /\ UNCHANGED <<environ, components, cache, store, now, config, pc, run, prev>>

NextKey == ComputeKey

SpecKey == InitKey /\ [][NextKey]_vars

\* C37: two Contexts whose collections of diff texts differ have different
\* cache key contents, and so different keys.
C37_KeyInjective ==
    (Len(hist) = 2 /\ ~SameCollection(DiffsOf(config.first), DiffsOf(config.second)))
    => /\ hist[1].content /= hist[2].content
       /\ hist[1].key /= hist[2].key

(***************************************************************************)
(* core/pipeline.py: the collectors of one run as concurrent tasks         *)
(***************************************************************************)
\* a configured collector: what its collect() does and whether collect is a
\* coroutine function; "missing" cannot be looked up or constructed
Producers ==
    { [kind |-> "R", is_async |-> FALSE],
      [kind |-> "D", is_async |-> FALSE],
      [kind |-> "D", is_async |-> TRUE],
      [kind |-> "empty", is_async |-> FALSE],
      [kind |-> "raises", is_async |-> FALSE],
      [kind |-> "missing", is_async |-> FALSE] }

\* config.collectors: one, two or three collectors
ProducerLists ==
    { <<a>> : a \in Producers }
    \cup { <<a, b>> : a \in Producers, b \in Producers }
    \cup { <<a, b, c>> : a \in Producers, b \in Producers, c \in Producers }

\* what collect() of a collector gives: every mapping has the key "readme"
OutputOf(p) ==
    CASE p.kind = "R" -> ReadmeCollector_collect(ReadmeText)
      [] p.kind = "D" -> ReadmeCollector_collect(PluginReadme)
      [] p.kind = "empty" -> ReadmeCollector_collect(EmptyStr)
      [] OTHER -> Raised("CollectorError")

\* index of the first collector the loop cannot create, 0 if none
RECURSIVE FirstMissing(_, _)
FirstMissing(collectors, i) ==
    IF i > Len(collectors) THEN 0
    ELSE IF collectors[i].kind = "missing" THEN i
    ELSE FirstMissing(collectors, i + 1)

\* the body of the loop for one collector: asyncio.create_task schedules the
\* coroutine at once, asyncio.to_thread only builds a coroutine object
created_task(p) == IF p.is_async THEN "scheduled" ELSE "coroutine"

\* results in the order the tasks finished
gather_results_as_completed(collectors, completion) ==
    [j \in 1..Len(collectors) |-> OutputOf(collectors[completion[j]])]

\* asyncio.gather(*tasks): the results in the order of its arguments
gather_results(collectors, completion) ==
    [i \in 1..Len(collectors) |-> OutputOf(collectors[i])]

NoFirstRun == [ended |-> "none", combined_data |-> EmptyMap, order |-> <<>>]

NewGather(round, first) ==
    [round |-> round, tasks |-> <<>>, error |-> NoError,
     combined_data |-> EmptyMap, first |-> first]

InitGather ==
    /\ config \in ProducerLists
    /\ cache = NoCache
    /\ store = EmptyMap
    /\ now = 0
    /\ hist = <<>>
    /\ pc = "collect"
    /\ run = NewGather(1, NoFirstRun)
    /\ prev = NoPrev
    /\ components = EmptyMap
    /\ environ = NoEnvironment

\* the loop of _collect_context and the call of asyncio.gather, which has no
\* await in between: a collector that cannot be created raises out of the
\* loop and leaves the tasks made so far as they are; otherwise gather
\* schedules every coroutine
CreateTasks ==
    /\ pc = "collect"
    /\ LET n == Len(config)
           bad == FirstMissing(config, 1)
       IN  IF bad /= 0
           THEN /\ run' = [run EXCEPT
                             !.tasks = [i \in 1..n |->
                                          IF i < bad THEN created_task(config[i])
                                          ELSE "none"],
                             !.error = Error("CollectorError", bad)]
                /\ pc' = "failed"
           ELSE /\ run' = [run EXCEPT !.tasks = [i \in 1..n |-> "scheduled"]]
                /\ pc' = "gather"
    /\ UNCHANGED <<environ, components, cache, store, now, hist, config, prev>>

\* a scheduled task runs collect() to its end, on the loop or in its thread;
\* the first exception of a task ends the gather that waits for it, and the
\* other tasks are left running
TaskFinishes(i) ==
    /\ pc \in {"gather", "failed"}
    /\ i \in 1..Len(run.tasks)
    /\ run.tasks[i] = "scheduled"
    /\ hist' = Append(hist, i)
    /\ IF OutputOf(config[i]).ok
       THEN /\ run' = [run EXCEPT !.tasks[i] = "done"]
            /\ pc' = pc
       ELSE /\ run' = [run EXCEPT !.tasks[i] = "failed",
                         !.error = IF pc = "gather"
                                   THEN Error(OutputOf(config[i]).exc, i) ELSE @]
            /\ pc' = "failed"
    /\ UNCHANGED <<environ, components, cache, store, now, config, prev>>

\* gather returns once every task is done, and the merge loop runs
GatherReturns ==
    /\ pc = "gather"
    /\ \A i \in 1..Len(run.tasks) : run.tasks[i] = "done"
    /\ run' = [run EXCEPT !.combined_data = Merge(gather_results(config, hist))]
    /\ pc' = "merged"
    /\ UNCHANGED <<environ, components, cache, store, now, hist, config, prev>>

\* generate is called once more with the same configuration
RunAgain ==
    /\ pc \in {"merged", "failed"}
    /\ run.round = 1
    /\ run' = NewGather(2, [ended |-> pc, combined_data |-> run.combined_data,
                            order |-> hist])
    /\ hist' = <<>>
    /\ pc' = "collect"
    /\ UNCHANGED <<environ, components, cache, store, now, config, prev>>

NextGather ==
    \/ CreateTasks
    \/ \E i \in 1..Len(config) : TaskFinishes(i)
    \/ GatherReturns
    \/ RunAgain

SpecGather == InitGather /\ [][NextGather]_vars

\* the collectors that give a non-empty value for "readme"
Emitters == { i \in 1..Len(config) : OutputOf(config[i]).ok
                                     /\ Truthy(OutputOf(config[i]).data["readme"]) }

\* C39: two runs of the same collectors with the same outputs merge to the
\* same mapping, in whatever order the tasks of each run finish.
C39_OrderIndependent ==
    (pc = "merged" /\ run.round = 2 /\ run.first.ended = "merged")
    => run.combined_data = run.first.combined_data

\* both runs merged, their tasks finished in different orders, and two
\* collectors gave different values for the same key
C39_Witness ==
    /\ pc = "merged" /\ run.round = 2 /\ run.first.ended = "merged"
    /\ hist /= run.first.order
    /\ \E i \in Emitters, j \in Emitters :
         OutputOf(config[i]).data["readme"] /= OutputOf(config[j]).data["readme"]
    /\ run.combined_data = run.first.combined_data

\* C40: once the collection has failed, no task of the run is still
\* scheduled or executing.
C40_NothingLeftRunning ==
    pc = "failed" => \A i \in 1..Len(run.tasks) : run.tasks[i] /= "scheduled"

====
